---- MODULE Spec2Model ----
(***************************************************************************)
(* Cycast streaming dataplane: the circular audio buffer, the source       *)
(* ingester with the playlist fallback, and the broadcaster with its       *)
(* queue-backed listeners.                                                 *)
(*                                                                         *)
(* Byte counts are scaled: one producer chunk (8192 bytes in the source)   *)
(* is one byte here, the broadcaster chunk (16384) is two, the listener    *)
(* queue (500 chunks) holds two chunks.                                    *)
(***************************************************************************)
EXTENDS Integers, Sequences, FiniteSets, TLC

VARIABLES
    audio_buffer,   \* CircularAudioBuffer: buffer, write_pos, read_pos, available_bytes
    wrote,          \* history: concatenation of the data of every write that returned True
    got,            \* history: concatenation of everything read() returned
    call,           \* history: the last call a harness made, its argument and its result
    listeners,      \* StreamBroadcaster.listeners: id -> [writer, bytes_sent]
    next_listener_id,
    running,        \* StreamBroadcaster.running
    wk,             \* the broadcast thread: where it is in _broadcast_loop, the chunk it holds
    writer,         \* per listener connection: its writer [queue, active, raises]
    hpc,            \* per listener connection: where its generate() is
    hid,            \* per listener connection: the listener_id add_listener returned
    emitted,        \* history: per listener connection, the chunks generate() yielded
    fanned,         \* history: the chunks the broadcast thread read from the buffer
    produced,       \* history: writes the test producer has made to the buffer
    enable_icy,     \* config: metadata.enable_icy
    headers,        \* per listener connection: the response headers _serve_stream built
    now,            \* time.time(), in ticks
    wk0,            \* a broadcast thread of an earlier start() that is still alive
    current_source, \* StreamServer.current_source: 0 for None, else the connection
    current_metadata,
    playlist_files, \* StreamServer.playlist_files, as load_playlist left it
    playlist_active,
    feeder,         \* playlist_feeder: pc, current_file_index, chunks read of the file, chunk held
    cpc,            \* per source connection: where handle_source_connection is
    cchunk,         \* per source connection: the chunk recv returned, being written
    closed,         \* per source connection: conn.close() has been called on it
    response,       \* per source connection: the status line the server sent
    expect,         \* history: per source connection, the status the protocol prescribes
    was_source,     \* history: per source connection, it has occupied current_source
    late_writes,    \* history: feeder writes accepted since current_source was last set from None
    request,        \* per source connection: the bytes the handshake has read (request)
    unread          \* per source connection: bytes the client has sent and no recv has returned yet

ringHist == <<wrote, got, call>>

icyVars == <<enable_icy, headers>>

bcastVars == <<listeners, next_listener_id, running, wk, writer, hpc, hid,
               emitted, fanned, produced, enable_icy, headers, now, wk0>>

srcVars == <<current_source, current_metadata, playlist_files, playlist_active, feeder, cpc, cchunk,
             closed, response, expect, was_source, late_writes, request, unread>>

vars == <<audio_buffer, wrote, got, call, listeners, next_listener_id, running, wk,
          writer, hpc, hid, emitted, fanned, produced, enable_icy, headers, now, wk0,
          current_source,
          current_metadata, playlist_files, playlist_active, feeder, cpc, cchunk,
          closed, response, expect, was_source, late_writes, request, unread>>

-----------------------------------------------------------------------------
(* Bounds of the model *)

Capacity == 3       \* self.size of the buffer, in bytes
MaxData == 4        \* longest data handed to one write()
MaxWritten == 5     \* bytes offered to the buffer in one run of the ring harness
MaxHandlers == 2    \* listener connections in one run
MaxProduced == 3    \* writes the producer feeds the broadcaster in one run
MaxConns == 2       \* source connections accepted in one run
NumFiles == 2       \* files in the playlist
FileChunks == 2     \* 8192-byte reads a playlist file yields before end of file
MaxNow == 2         \* ticks of the clock in one run of the status harness
MaxTitle == 5       \* longest StreamTitle of letters, blanks and dashes a source sends
MaxNoise == 3       \* longest StreamTitle with quotes, semicolons and undecodable bytes
MaxAudio == 3       \* bytes a playlist file holds after its tag (or after its tenth byte)
MaxBody == 3        \* body bytes a source client sends after its request headers
MaxPlayed == 4      \* bytes of playlist files followed in one run of the playlist harness

\* Scaled program constants
chunk_size == 2     \* StreamBroadcaster.chunk_size (16384 bytes)
maxsize == 2        \* queue.Queue(maxsize=500) of a StreamWriter
icy_metaint == 1    \* metadata.icy_metaint (16000 bytes, less than one broadcaster chunk)
feeder_chunk_size == 2   \* chunk_size = 8192 of playlist_feeder, when files are modelled byte by byte
handshake_recv_size == 2 \* conn.recv(1024) of the handshake, when requests are modelled byte by byte
recv_size == 2           \* conn.recv(chunk_size = 8192) of the streaming loop, likewise
request_limit == 8       \* len(request) < 8192 of the handshake

Byte == 0 .. 1

-----------------------------------------------------------------------------
(* Sequence helpers *)

Min(a, b) == IF a < b THEN a ELSE b

Max(a, b) == IF a > b THEN a ELSE b

SeqsUpTo(S, n) == UNION { [1 .. k -> S] : k \in 0 .. n }

IsPrefix(s, t) == Len(s) <= Len(t) /\ SubSeq(t, 1, Len(s)) = s

-----------------------------------------------------------------------------
(* audio_buffer.py: CircularAudioBuffer *)

size == Capacity

CircularAudioBuffer ==
    [ buffer          |-> [i \in 0 .. size - 1 |-> 0],
      write_pos       |-> 0,
      read_pos        |-> 0,
      available_bytes |-> 0 ]

\* the byte loop of write(): store at write_pos, advance modulo size
RECURSIVE write_loop(_, _)
write_loop(b, data) ==
    IF data = <<>> THEN b
    ELSE write_loop([b EXCEPT !.buffer[b.write_pos] = Head(data),
                              !.write_pos = (b.write_pos + 1) % size],
                    Tail(data))

\* a write whose space check forgets the bytes still unread
write_overrun(b, data) ==
    IF Len(data) > size
    THEN [ret |-> FALSE, buf |-> b]
    ELSE [ret |-> TRUE,
          buf |-> [write_loop(b, data) EXCEPT
                      !.available_bytes = Min(size, @ + Len(data))]]

\* a write that stores what fits and drops the rest
write_partial(b, data) ==
    LET fit == SubSeq(data, 1, Min(Len(data), size - b.available_bytes))
    IN  IF b.available_bytes + Len(data) > size
        THEN [ret |-> FALSE,
              buf |-> [write_loop(b, fit) EXCEPT !.available_bytes = @ + Len(fit)]]
        ELSE [ret |-> TRUE,
              buf |-> [write_loop(b, data) EXCEPT !.available_bytes = @ + Len(data)]]

\* a write without the space check
write_unchecked(b, data) ==
    [ret |-> TRUE,
     buf |-> [write_loop(b, data) EXCEPT !.available_bytes = @ + Len(data)]]

\* a write that counts one byte less than it stored
write_miscount(b, data) ==
    IF b.available_bytes + Len(data) > size
    THEN [ret |-> FALSE, buf |-> b]
    ELSE [ret |-> TRUE,
          buf |-> [write_loop(b, data) EXCEPT
                      !.available_bytes = IF Len(data) > 1 THEN @ + Len(data) - 1
                                          ELSE @ + Len(data)]]

write(b, data) ==
    IF b.available_bytes + Len(data) > size
    THEN [ret |-> FALSE, buf |-> b]
    ELSE [ret |-> TRUE,
          buf |-> [write_loop(b, data) EXCEPT !.available_bytes = @ + Len(data)]]

\* the byte loop of read(): copy from read_pos, advance modulo size
RECURSIVE read_loop(_, _, _)
read_loop(b, n, data) ==
    IF n = 0 THEN [data |-> data, buf |-> b]
    ELSE read_loop([b EXCEPT !.read_pos = (b.read_pos + 1) % size],
                   n - 1, Append(data, b.buffer[b.read_pos]))

\* a read that hands out size bytes whatever is available
read_uncapped(b, n) ==
    IF n = 0 \/ b.available_bytes = 0
    THEN [data |-> <<>>, buf |-> b]
    ELSE LET r == read_loop(b, n, <<>>)
         IN  [data |-> r.data,
              buf  |-> [r.buf EXCEPT !.available_bytes = Min(@, Max(@ - n, 0))]]

read(b, n) ==
    LET to_read == Min(n, b.available_bytes)
    IN  IF to_read = 0
        THEN [data |-> <<>>, buf |-> b]
        ELSE LET r == read_loop(b, to_read, <<>>)
             IN  [data |-> r.data,
                  buf  |-> [r.buf EXCEPT !.available_bytes = @ - to_read]]

\* clear(): both positions and the count go back to 0 (the bytes stay)
clear(b) == [b EXCEPT !.write_pos = 0, !.read_pos = 0, !.available_bytes = 0]

available(b) == b.available_bytes

space(b) == size - b.available_bytes

-----------------------------------------------------------------------------
(* cycast_server.py: the request a source client sends, and how            *)
(* handle_source_connection reads it                                       *)

S_SOURCE == <<"S", "O", "U", "R", "C", "E">>
S_PUT == <<"P", "U", "T">>
S_GET == <<"G", "E", "T">>
S_PUTX == <<"P", "U", "T", "X">>

\* self.source_password
source_password == <<"p">>

Methods == {S_SOURCE, S_PUT, S_GET, S_PUTX, <<"P", "U">>}

\* what "Authorization: Basic <token>" carries: a token base64 cannot decode,
\* or the decoded auth_data
AuthTexts == SeqsUpTo({":", "p"}, 3)

AuthLines ==
    {[kind |-> "auth", b64ok |-> FALSE, auth_data |-> <<>>]}
    \cup {[kind |-> "auth", b64ok |-> TRUE, auth_data |-> t] : t \in AuthTexts}

GoodLine == [kind |-> "auth", b64ok |-> TRUE, auth_data |-> <<":", "p">>]
WrongLine == [kind |-> "auth", b64ok |-> TRUE, auth_data |-> <<":", ":">>]
TypeLine == [kind |-> "ctype", b64ok |-> FALSE, auth_data |-> <<>>]

HeaderLists ==
    {<<>>} \cup {<<l>> : l \in AuthLines \cup {TypeLine}}
    \cup {<<a, b>> : a \in {GoodLine, WrongLine}, b \in {GoodLine, WrongLine}}

\* complete: the request ended with CRLF CRLF before EOF or the 5 s timeout
Requests ==
    {[complete |-> FALSE, method |-> S_SOURCE, lines |-> <<GoodLine>>]}
    \cup {[complete |-> TRUE, method |-> m, lines |-> hs] :
             m \in Methods, hs \in HeaderLists}

\* str.startswith
startswith(str, prefix) ==
    Len(str) >= Len(prefix) /\ SubSeq(str, 1, Len(prefix)) = prefix

\* str.find(ch): index of the first occurrence, 0 when there is none
RECURSIVE find_from(_, _, _)
find_from(str, ch, i) ==
    IF i > Len(str) THEN 0
    ELSE IF str[i] = ch THEN i
    ELSE find_from(str, ch, i + 1)

\* index of the last occurrence, 0 when there is none
RECURSIVE rfind_from(_, _, _)
rfind_from(str, ch, i) ==
    IF i < 1 THEN 0
    ELSE IF str[i] = ch THEN i
    ELSE rfind_from(str, ch, i - 1)

\* the password taken after the last colon
password_of_rsplit(auth_data) ==
    SubSeq(auth_data, rfind_from(auth_data, ":", Len(auth_data)) + 1, Len(auth_data))

\* username, password = auth_data.split(':', 1)
password_of(auth_data) ==
    SubSeq(auth_data, find_from(auth_data, ":", 1) + 1, Len(auth_data))

\* one "Authorization: Basic " line: b64decode (an exception is logged),
\* ':' in auth_data, password == self.source_password
line_authenticates(line) ==
    /\ line.kind = "auth"
    /\ line.b64ok
    /\ find_from(line.auth_data, ":", 1) # 0
    /\ password_of(line.auth_data) = source_password

\* for line in lines: ... authenticated = True (never reset)
RECURSIVE authenticated(_)
authenticated(lines) ==
    IF lines = <<>> THEN FALSE
    ELSE line_authenticates(Head(lines)) \/ authenticated(Tail(lines))

\* lines[0].startswith(('SOURCE', 'PUT'))
valid_source_request(method) ==
    startswith(method, S_SOURCE) \/ startswith(method, S_PUT)

\* the status line handle_source_connection answers a request with
respond(req) ==
    IF ~req.complete THEN "none"
    ELSE IF ~valid_source_request(req.method) THEN "405"
    ELSE IF ~authenticated(req.lines) THEN "401"
    ELSE "200"

-----------------------------------------------------------------------------
(* What the protocol prescribes for a request (spec 4.3, 6): used only to  *)
(* fill the history variable expect                                         *)

ValidCredentials(req) ==
    \E k \in 1 .. Len(req.lines) :
        LET l == req.lines[k]
        IN  /\ l.kind = "auth" /\ l.b64ok
            /\ \E i \in 1 .. Len(l.auth_data) :
                  /\ l.auth_data[i] = ":"
                  /\ \A j \in 1 .. i - 1 : l.auth_data[j] # ":"
                  /\ Len(l.auth_data) - i = Len(source_password)
                  /\ \A j \in 1 .. Len(source_password) :
                        l.auth_data[i + j] = source_password[j]

Prescribed(req) ==
    IF ~req.complete THEN "none"
    ELSE IF req.method \notin {S_SOURCE, S_PUT} THEN "405"
    ELSE IF ValidCredentials(req) THEN "200"
    ELSE "401"

-----------------------------------------------------------------------------
(* cycast_server.py: StreamServer, its source handlers and playlist feeder *)

Conns == 1 .. MaxConns

None == 0

\* titles are written <<text, n>>: n numbers the playlist file a title names
\* (a title sniffed from the stream is <<"StreamTitle", its characters>>);
\* artists are written as their characters
station_name == [title |-> <<"station_name", 0>>, artist |-> <<>>]
LiveStream == [title |-> <<"Live Stream", 0>>, artist |-> <<>>]
PlaylistEntry(file_path) ==
    [title |-> <<"file", file_path>>, artist |-> <<"P", "l", "a", "y", "l", "i", "s", "t">>]

\* scaled chunks: what one f.read(8192) / conn.recv(8192) returns (the
\* playlist file and the live stream both carry zero bytes, as the test
\* audio of spec scenario 2 does)
FileChunk == <<0>>
LiveChunk == <<0>>

InitServer ==
    /\ current_source = None
    /\ current_metadata = station_name
    /\ playlist_files = <<>>
    /\ playlist_active = FALSE
    /\ feeder = [pc |-> "idle", current_file_index |-> 0, pos |-> 0, chunk |-> <<>>]
    /\ cpc = [c \in Conns |-> "idle"]
    /\ cchunk = [c \in Conns |-> <<>>]
    /\ closed = [c \in Conns |-> FALSE]
    /\ response = [c \in Conns |-> "none"]
    /\ expect = [c \in Conns |-> "none"]
    /\ was_source = [c \in Conns |-> FALSE]
    /\ late_writes = 0
    /\ request = [c \in Conns |-> <<>>]
    /\ unread = [c \in Conns |-> <<>>]

\* history: a feeder write accepted while a source occupies the slot
CountLate == IF current_source # None THEN Min(late_writes + 1, 3) ELSE late_writes

\* --- playlist_feeder ---

\* with source_lock: should_play = current_source is None;
\* if should_play and playlist_files: playlist_active = True, go on to play;
\* else: playlist_active = False, sleep 100 ms
FeederIdle ==
    /\ feeder.pc = "idle"
    /\ IF current_source = None /\ playlist_files # <<>>
       THEN /\ playlist_active' = TRUE
            /\ feeder' = [feeder EXCEPT !.pc = "meta"]
       ELSE /\ playlist_active' = FALSE
            /\ UNCHANGED feeder
    /\ UNCHANGED playlist_files
    /\ UNCHANGED <<request, unread, audio_buffer, ringHist, bcastVars, current_source, current_metadata,
                   cpc, cchunk, closed, response, expect, was_source, late_writes>>

\* with metadata_lock: current_metadata = {filename, "Playlist"}; open the file
FeederMeta ==
    /\ feeder.pc = "meta"
    /\ current_metadata' = PlaylistEntry(playlist_files[feeder.current_file_index + 1])
    /\ feeder' = [feeder EXCEPT !.pc = "check", !.pos = 0]
    /\ UNCHANGED <<request, unread, audio_buffer, ringHist, bcastVars, current_source, playlist_files, playlist_active,
                   cpc, cchunk, closed, response, expect, was_source, late_writes>>

\* the inner loop without its look at current_source
feeder_sees_source_never == FALSE

\* an inner loop that always takes a source to be attached
feeder_sees_source_always == TRUE

\* with source_lock: if self.current_source is not None
feeder_sees_source == current_source # None

\* a feeder that advances only past a file it has played to its end
next_file_index_replay(abandoned) ==
    IF abandoned THEN feeder.current_file_index
    ELSE (feeder.current_file_index + 1) % Len(playlist_files)

\* after the with block, whichever break ended the inner loop:
\* current_file_index = (current_file_index + 1) % len(self.playlist_files)
next_file_index(abandoned) == (feeder.current_file_index + 1) % Len(playlist_files)

\* inner loop head: if a source is attached, playlist_active = False and
\* break; chunk = f.read(8192); if not chunk: break; after a break the index
\* advances modulo the playlist length
FeederRead ==
    /\ feeder.pc = "check"
    /\ IF feeder_sees_source
       THEN /\ playlist_active' = FALSE
            /\ feeder' = [pc |-> "idle",
                          current_file_index |-> next_file_index(TRUE),
                          pos |-> 0, chunk |-> <<>>]
       ELSE /\ UNCHANGED playlist_active
            /\ IF feeder.pos = FileChunks
               THEN feeder' = [pc |-> "idle",
                               current_file_index |-> next_file_index(FALSE),
                               pos |-> 0, chunk |-> <<>>]
               ELSE feeder' = [feeder EXCEPT !.pc = "write", !.pos = @ + 1,
                                             !.chunk = FileChunk]
    /\ UNCHANGED playlist_files
    /\ UNCHANGED <<request, unread, audio_buffer, ringHist, bcastVars, current_source, current_metadata,
                   cpc, cchunk, closed, response, expect, was_source, late_writes>>

\* while not self.audio_buffer.write(chunk): time.sleep(0.0001)
FeederWrite ==
    LET r == write(audio_buffer, feeder.chunk)
    IN  /\ feeder.pc = "write"
        /\ audio_buffer' = r.buf
        /\ IF r.ret
           THEN /\ feeder' = [feeder EXCEPT !.pc = "check", !.chunk = <<>>]
                /\ late_writes' = CountLate
           ELSE UNCHANGED <<feeder, late_writes>>
        /\ UNCHANGED <<request, unread, ringHist, bcastVars, current_source, current_metadata,
                       playlist_files, playlist_active, cpc, cchunk, closed, response, expect,
                       was_source>>

\* --- playlist_feeder, the file read byte by byte ---
\* A file is [head, length]: head is what its first ten bytes are (or would
\* be, were it that long). The byte at offset k is written k: what the feeder
\* writes to the buffer tells where in the file it came from.

ID3 == <<"I", "D", "3">>

\* f.read(n) at position pos: the bytes up to the end of the file
file_read(file, pos, n) ==
    [i \in 1 .. Max(0, Min(pos + n, file.length) - pos) |-> pos + i - 1]

\* header = f.read(10)
file_header(file) == SubSeq(file.head, 1, Min(10, file.length))

\* a size computed without masking the top bit of each byte
synchsafe_unmasked(header) ==
    header[7] * 2097152 + header[8] * 16384 + header[9] * 128 + header[10]

\* ((header[6] & 0x7f) << 21) | ((header[7] & 0x7f) << 14) |
\* ((header[8] & 0x7f) << 7) | (header[9] & 0x7f): the fields do not overlap,
\* so | adds them
synchsafe(header) ==
    (header[7] % 128) * 2097152 + (header[8] % 128) * 16384
        + (header[9] % 128) * 128 + (header[10] % 128)

\* a seek that forgets the ten bytes of the header
seek_target_size(header) ==
    IF SubSeq(header, 1, Min(3, Len(header))) = ID3 THEN synchsafe(header) ELSE 0

\* if header[:3] == b'ID3': f.seek(size + 10) else: f.seek(0)
seek_target(header) ==
    IF SubSeq(header, 1, Min(3, Len(header))) = ID3 THEN synchsafe(header) + 10 ELSE 0

\* header[6] .. header[9] of a header shorter than ten bytes: IndexError
header_raises(header) ==
    SubSeq(header, 1, Min(3, Len(header))) = ID3 /\ Len(header) < 10

\* with metadata_lock: current_metadata = {filename, "Playlist"}; then
\* open(file_path, 'rb') (history: call records that a file was opened)
FeederMetaFile ==
    /\ feeder.pc = "meta"
    /\ current_metadata' = PlaylistEntry(playlist_files[feeder.current_file_index + 1])
    /\ feeder' = [feeder EXCEPT !.pc = "open", !.pos = 0]
    /\ call' = [op |-> "open", data |-> <<>>, n |-> feeder.current_file_index, ret |-> TRUE]
    /\ UNCHANGED <<request, unread, audio_buffer, wrote, got, bcastVars, current_source, playlist_files,
                   playlist_active, cpc, cchunk, closed, response, expect, was_source,
                   late_writes>>

\* header = f.read(10) and the seek past the tag; an exception is logged by
\* the handler around the file, which sleeps 1 s and goes round the outer
\* loop with the same index
FeederOpen ==
    LET header == file_header(playlist_files[feeder.current_file_index + 1])
    IN  /\ feeder.pc = "open"
        /\ IF header_raises(header)
           THEN feeder' = [feeder EXCEPT !.pc = "idle", !.pos = 0]
           ELSE feeder' = [feeder EXCEPT !.pc = "check", !.pos = seek_target(header)]
        /\ UNCHANGED <<request, unread, audio_buffer, ringHist, bcastVars, current_source, current_metadata,
                       playlist_files, playlist_active, cpc, cchunk, closed, response,
                       expect, was_source, late_writes>>

\* inner loop head: break if a source is attached; chunk = f.read(chunk_size);
\* if not chunk: break; after a break the index advances
FeederReadFile ==
    LET file == playlist_files[feeder.current_file_index + 1]
        chunk == file_read(file, feeder.pos, feeder_chunk_size)
        next_file(abandoned) ==
            [pc |-> "idle", current_file_index |-> next_file_index(abandoned),
             pos |-> 0, chunk |-> <<>>]
    IN  /\ feeder.pc = "check"
        /\ IF feeder_sees_source
           THEN /\ playlist_active' = FALSE
                /\ feeder' = next_file(TRUE)
           ELSE /\ UNCHANGED playlist_active
                /\ IF chunk = <<>>
                   THEN feeder' = next_file(FALSE)
                   ELSE feeder' = [feeder EXCEPT !.pc = "write", !.pos = @ + Len(chunk),
                                                 !.chunk = chunk]
        /\ UNCHANGED <<request, unread, audio_buffer, ringHist, bcastVars, current_source, current_metadata,
                       playlist_files, cpc, cchunk, closed, response, expect, was_source,
                       late_writes>>

\* while not self.audio_buffer.write(chunk): time.sleep(0.0001)
\* (history: wrote collects what the buffer accepted)
FeederWriteFile ==
    LET r == write(audio_buffer, feeder.chunk)
    IN  /\ feeder.pc = "write"
        /\ audio_buffer' = r.buf
        /\ IF r.ret
           THEN /\ feeder' = [feeder EXCEPT !.pc = "check", !.chunk = <<>>]
                /\ wrote' = wrote \o feeder.chunk
                /\ late_writes' = CountLate
           ELSE UNCHANGED <<feeder, wrote, late_writes>>
        /\ UNCHANGED <<request, unread, got, call, bcastVars, current_source, current_metadata,
                       playlist_files, playlist_active, cpc, cchunk, closed, response, expect,
                       was_source>>

\* --- handle_source_connection ---

\* a finally block that empties the slot without looking at its occupant
clear_always(c) == None

\* finally: with source_lock: if self.current_source == conn: current_source = None
clear_if_current(c) == IF current_source = c THEN None ELSE current_source

\* The handshake: the request is read and answered. A request that is not
\* accepted ends the handler at once: 405 / 401 / nothing is sent and the
\* finally block runs (slot cleared if it is this connection, conn.close()).
\* (Connections are numbered in the order they are accepted.)
Handshake(c, req) ==
    /\ cpc[c] = "idle"
    /\ \A d \in Conns : d < c => cpc[d] # "idle"
    /\ response' = [response EXCEPT ![c] = respond(req)]
    /\ expect' = [expect EXCEPT ![c] = Prescribed(req)]
    /\ IF respond(req) = "200"
       THEN /\ cpc' = [cpc EXCEPT ![c] = "attach"]
            /\ UNCHANGED <<current_source, closed>>
       ELSE /\ cpc' = [cpc EXCEPT ![c] = "done"]
            /\ current_source' = clear_if_current(c)
            /\ closed' = [closed EXCEPT ![c] = TRUE]
    /\ UNCHANGED <<request, unread, audio_buffer, ringHist, bcastVars, current_metadata, playlist_files, playlist_active,
                   feeder, cchunk, was_source, late_writes>>

\* an attach that leaves the previous connection open
close_previous_never(c) == closed

\* if self.current_source is not None: self.current_source.close()
close_previous(c) ==
    IF current_source # None THEN [closed EXCEPT ![current_source] = TRUE] ELSE closed

\* with source_lock: close the previous source, current_source = conn
Attach(c) ==
    /\ cpc[c] = "attach"
    /\ closed' = close_previous(c)
    /\ current_source' = c
    /\ was_source' = [was_source EXCEPT ![c] = TRUE]
    /\ late_writes' = IF current_source = None THEN 0 ELSE late_writes
    /\ cpc' = [cpc EXCEPT ![c] = "meta"]
    /\ UNCHANGED <<request, unread, audio_buffer, ringHist, bcastVars, current_metadata, playlist_files, playlist_active,
                   feeder, cchunk, response, expect>>

\* with metadata_lock: current_metadata = {"Live Stream", ""}
SetLiveMetadata(c) ==
    /\ cpc[c] = "meta"
    /\ current_metadata' = LiveStream
    /\ cpc' = [cpc EXCEPT ![c] = "recv"]
    /\ UNCHANGED <<request, unread, audio_buffer, ringHist, bcastVars, current_source, playlist_files, playlist_active,
                   feeder, cchunk, closed, response, expect, was_source, late_writes>>

\* chunk = conn.recv(8192) returned data
Recv(c) ==
    /\ cpc[c] = "recv"
    /\ ~closed[c]
    /\ cchunk' = [cchunk EXCEPT ![c] = LiveChunk]
    /\ cpc' = [cpc EXCEPT ![c] = "write"]
    /\ UNCHANGED <<request, unread, audio_buffer, ringHist, bcastVars, current_source, current_metadata,
                   playlist_files, playlist_active, feeder, closed, response, expect, was_source,
                   late_writes>>

\* recv returned b'' (the client left), timed out after 10 s, or raised
\* because the connection was closed under the handler: break
RecvEnd(c) ==
    /\ cpc[c] = "recv"
    /\ cpc' = [cpc EXCEPT ![c] = "finally"]
    /\ UNCHANGED <<request, unread, audio_buffer, ringHist, bcastVars, current_source, current_metadata,
                   playlist_files, playlist_active, feeder, cchunk, closed, response, expect,
                   was_source, late_writes>>

\* while not self.audio_buffer.write(chunk): time.sleep(0.001)
SourceWrite(c) ==
    LET r == write(audio_buffer, cchunk[c])
    IN  /\ cpc[c] = "write"
        /\ audio_buffer' = r.buf
        /\ IF r.ret
           THEN /\ cpc' = [cpc EXCEPT ![c] = "recv"]
                /\ cchunk' = [cchunk EXCEPT ![c] = <<>>]
           ELSE UNCHANGED <<cpc, cchunk>>
        /\ UNCHANGED <<request, unread, ringHist, bcastVars, current_source, current_metadata,
                       playlist_files, playlist_active, feeder, closed, response, expect, was_source,
                       late_writes>>

\* finally: with source_lock: if self.current_source == conn: current_source = None
Finally(c) ==
    /\ cpc[c] = "finally"
    /\ current_source' = clear_if_current(c)
    /\ late_writes' = IF current_source = c THEN 0 ELSE late_writes
    /\ cpc' = [cpc EXCEPT ![c] = "close"]
    /\ UNCHANGED <<request, unread, audio_buffer, ringHist, bcastVars, current_metadata, playlist_files, playlist_active,
                   feeder, cchunk, closed, response, expect, was_source>>

\* finally: conn.close()
CloseConn(c) ==
    /\ cpc[c] = "close"
    /\ closed' = [closed EXCEPT ![c] = TRUE]
    /\ cpc' = [cpc EXCEPT ![c] = "done"]
    /\ UNCHANGED <<request, unread, audio_buffer, ringHist, bcastVars, current_source, current_metadata,
                   playlist_files, playlist_active, feeder, cchunk, response, expect, was_source,
                   late_writes>>

\* --- parse_icy_metadata ---

\* b"StreamTitle='"
StreamTitleQuote == <<"S", "t", "r", "e", "a", "m", "T", "i", "t", "l", "e", "=", "'">>

\* b"StreamTitle="
StreamTitleEq == <<"S", "t", "r", "e", "a", "m", "T", "i", "t", "l", "e", "=">>

\* b"';"
QuoteSemi == <<"'", ";">>

\* ' - '
Dash == <<" ", "-", " ">>

\* bytes.find(sub, start) and str.find(sub, start): the lowest index (from 0)
\* at or after start where sub occurs, -1 when there is none
RECURSIVE bytes_find(_, _, _)
bytes_find(data, sub, start) ==
    IF start + Len(sub) > Len(data) THEN -1
    ELSE IF SubSeq(data, start + 1, start + Len(sub)) = sub THEN start
    ELSE bytes_find(data, sub, start + 1)

\* data[start:end]
slice(data, start, end) == SubSeq(data, start + 1, end)

\* bytes.decode('utf-8', errors='ignore'): bytes that are not valid UTF-8
\* (written "?") are left out
RECURSIVE decode(_)
decode(bytes) ==
    IF bytes = <<>> THEN <<>>
    ELSE (IF Head(bytes) = "?" THEN <<>> ELSE <<Head(bytes)>>) \o decode(Tail(bytes))

\* the metadata a sniffed title gives: artist, track = title.split(' - ', 1)
\* if ' - ' in title, else the whole title with an empty artist
title_metadata(title) ==
    LET at == bytes_find(title, Dash, 0)
    IN  IF at # -1
        THEN [title |-> <<"StreamTitle", slice(title, at + Len(Dash), Len(title))>>,
              artist |-> slice(title, 0, at)]
        ELSE [title |-> <<"StreamTitle", title>>, artist |-> <<>>]

\* parse_icy_metadata(data): the metadata it leaves, given the metadata before
parse_icy_metadata(data, metadata) ==
    IF bytes_find(data, StreamTitleQuote, 0) # -1
    THEN LET start == bytes_find(data, StreamTitleQuote, 0) + 13
             end == bytes_find(data, QuoteSemi, start)
         IN  IF end > start
             THEN title_metadata(decode(slice(data, start, end)))
             ELSE metadata
    ELSE metadata

\* an update of the title that writes into the dict in place and leaves the
\* artist of the previous update
sniff_in_place(chunk, metadata) ==
    [metadata EXCEPT !.title = parse_icy_metadata(chunk, metadata).title]

\* if b"StreamTitle=" in chunk: self.parse_icy_metadata(chunk)
sniff(chunk, metadata) ==
    IF bytes_find(chunk, StreamTitleEq, 0) # -1
    THEN parse_icy_metadata(chunk, metadata)
    ELSE metadata

\* chunk = conn.recv(8192) returned the bytes text: the chunk is sniffed for
\* a title and goes on to be written (the buffer holds it scaled: LiveChunk)
Sniffed(c, text) ==
    /\ cpc[c] = "recv"
    /\ ~closed[c]
    /\ current_metadata' = sniff(text, current_metadata)
    /\ cchunk' = [cchunk EXCEPT ![c] = LiveChunk]
    /\ cpc' = [cpc EXCEPT ![c] = "write"]
    /\ UNCHANGED <<request, unread, audio_buffer, wrote, got, bcastVars, current_source,
                   playlist_files, playlist_active, feeder, closed, response, expect, was_source,
                   late_writes>>

\* the one chunk of a run whose content is followed (history: call)
RecvText(c, text) ==
    /\ call.op = "none"
    /\ call' = [op |-> "recv", data |-> text, n |-> c, ret |-> TRUE]
    /\ Sniffed(c, text)

\* a chunk with a title in a stream that changes its title as it goes
RecvTitle(c, text) ==
    /\ Sniffed(c, text)
    /\ UNCHANGED call

-----------------------------------------------------------------------------
(* flask_app.py: the StreamWriter each listener connection hands to the    *)
(* broadcaster, and queue.Queue as far as StreamWriter uses it             *)

Handlers == 1 .. MaxHandlers

\* raises: write() or flush() of the object raises. Never so for a
\* StreamWriter; a writer of another kind handed to add_listener may.
StreamWriter == [queue |-> <<>>, active |-> TRUE, raises |-> FALSE]

\* the block argument of queue.put in StreamWriter.write
put_block_true == TRUE

put_block == FALSE

\* queue.put(item, block): room -> enqueued at the tail; no room -> waits for
\* room when block, raises queue.Full otherwise
put_waits(q) == put_block /\ Len(q) >= maxsize

put_nowait(q, item) ==
    IF Len(q) < maxsize
    THEN [full |-> FALSE, queue |-> Append(q, item)]
    ELSE [full |-> TRUE, queue |-> q]

\* a write that makes room by discarding the head of a full queue
StreamWriter_write_drop_oldest(w, data) ==
    IF w.active
    THEN IF Len(w.queue) < maxsize
         THEN [w EXCEPT !.queue = Append(@, data)]
         ELSE [w EXCEPT !.queue = Append(Tail(@), data)]
    ELSE w

\* a write that enqueues at the head
StreamWriter_write_front(w, data) ==
    IF w.active /\ Len(w.queue) < maxsize
    THEN [w EXCEPT !.queue = <<data>> \o @]
    ELSE w

\* StreamWriter.write: put without blocking; on queue.Full: pass
StreamWriter_write(w, data) ==
    IF w.active
    THEN [w EXCEPT !.queue = put_nowait(@, data).queue]
    ELSE w

StreamWriter_close(w) == [w EXCEPT !.active = FALSE]

-----------------------------------------------------------------------------
(* stream_broadcaster.py: StreamBroadcaster *)

Registered(h) == \E lid \in DOMAIN listeners : listeners[lid].writer = h

InitBroadcaster ==
    /\ listeners = <<>>
    /\ next_listener_id = 0
    /\ running = FALSE
    /\ wk = [pc |-> "none", chunk |-> <<>>]
    /\ writer = [h \in Handlers |-> StreamWriter]
    /\ hpc = [h \in Handlers |-> "idle"]
    /\ hid = [h \in Handlers |-> -1]
    /\ emitted = [h \in Handlers |-> <<>>]
    /\ fanned = <<>>
    /\ produced = 0
    /\ enable_icy = FALSE
    /\ now = 0
    /\ wk0 = [pc |-> "none", chunk |-> <<>>]
    /\ headers = [h \in Handlers |-> [icy_metaint |-> None]]

\* an add_listener that does not advance next_listener_id
add_listener_same_id(h) ==
    /\ listeners' = [lid \in DOMAIN listeners \cup {next_listener_id} |->
                        IF lid = next_listener_id
                        THEN [writer |-> h, bytes_sent |-> 0, connected_at |-> now]
                        ELSE listeners[lid]]
    /\ next_listener_id' = next_listener_id

\* add_listener: take the next id, register the writer with bytes_sent 0 and
\* the time of the call
add_listener(h) ==
    /\ listeners' = [lid \in DOMAIN listeners \cup {next_listener_id} |->
                        IF lid = next_listener_id
                        THEN [writer |-> h, bytes_sent |-> 0, connected_at |-> now]
                        ELSE listeners[lid]]
    /\ next_listener_id' = next_listener_id + 1

\* a remove_listener that deletes without looking: del of a missing key raises
remove_listener_del(listener_id) ==
    /\ listener_id \in DOMAIN listeners
    /\ listeners' = [lid \in DOMAIN listeners \ {listener_id} |-> listeners[lid]]

\* a remove_listener that leaves the table as it is
remove_listener_skip(listener_id) == listeners' = listeners

\* remove_listener: delete the id if it is there
remove_listener(listener_id) ==
    listeners' = [lid \in DOMAIN listeners \ {listener_id} |-> listeners[lid]]

is_listener_active(listener_id) == listener_id \in DOMAIN listeners

\* what class StreamBroadcaster defines: the attributes a caller can look up
StreamBroadcaster_methods ==
    {"__init__", "add_listener", "remove_listener", "is_listener_active",
     "_broadcast_chunk", "_broadcast_loop", "start", "stop", "get_stats"}

\* the ids of a dict in iteration order: the order of insertion, which for
\* self.listeners is ascending (ids only grow and are never inserted again)
RECURSIVE items(_)
items(ids) ==
    IF ids = {} THEN <<>>
    ELSE LET lid == CHOOSE x \in ids : \A y \in ids : x <= y
         IN  <<lid>> \o items(ids \ {lid})

\* get_stats(): under listeners_lock, the size of the table and one entry per
\* listener in it
get_stats ==
    LET ids == items(DOMAIN listeners)
    IN  [total_listeners |-> Cardinality(DOMAIN listeners),
         listeners |-> [i \in 1 .. Len(ids) |->
                          [id |-> ids[i],
                           bytes_sent |-> listeners[ids[i]].bytes_sent,
                           connected_seconds |-> now - listeners[ids[i]].connected_at]]]

\* start(): if not running, set the flag and start the broadcast thread
Start ==
    /\ ~running
    /\ wk.pc \in {"none", "exited"}
    /\ running' = TRUE
    /\ wk' = [pc |-> "loop", chunk |-> <<>>]
    /\ UNCHANGED srcVars
    /\ UNCHANGED icyVars
    /\ UNCHANGED now
    /\ UNCHANGED wk0
    /\ UNCHANGED <<audio_buffer, ringHist, listeners, next_listener_id, writer, hpc,
                   hid, emitted, fanned, produced>>

\* stop(): if running, clear the flag (and wait for the thread)
Stop ==
    /\ running
    /\ running' = FALSE
    /\ UNCHANGED srcVars
    /\ UNCHANGED icyVars
    /\ UNCHANGED now
    /\ UNCHANGED wk0
    /\ UNCHANGED <<audio_buffer, ringHist, listeners, next_listener_id, wk, writer,
                   hpc, hid, emitted, fanned, produced>>

\* a loop that reads only while somebody listens
has_chunk_listened(b) == available(b) >= chunk_size /\ DOMAIN listeners # {}

\* a loop that waits until two chunks are available
has_chunk_two(b) == available(b) >= 2 * chunk_size

\* a loop that reads whatever there is
has_chunk_any(b) == available(b) > 0

\* if self.audio_buffer.available() >= self.chunk_size
has_chunk(b) == available(b) >= chunk_size

\* a loop that looks at the flag only when it finds nothing to read
sees_stop_when_idle == ~running /\ ~has_chunk(audio_buffer)

\* while self.running
sees_stop == ~running

\* _broadcast_loop, loop head: leave when not running; go on to read when a
\* whole chunk is available; otherwise sleep and poll again
WorkerLoop ==
    /\ wk.pc = "loop"
    /\ IF sees_stop
       THEN wk' = [wk EXCEPT !.pc = "exited"]
       ELSE /\ has_chunk(audio_buffer)
            /\ wk' = [wk EXCEPT !.pc = "read"]
    /\ UNCHANGED srcVars
    /\ UNCHANGED icyVars
    /\ UNCHANGED now
    /\ UNCHANGED wk0
    /\ UNCHANGED <<audio_buffer, ringHist, listeners, next_listener_id, running,
                   writer, hpc, hid, emitted, fanned, produced>>

\* _broadcast_loop: chunk = audio_buffer.read(chunk_size); an empty chunk
\* sends the thread back to the loop head
WorkerRead ==
    LET r == read(audio_buffer, chunk_size)
    IN  /\ wk.pc = "read"
        /\ audio_buffer' = r.buf
        /\ wk' = IF r.data # <<>>
                 THEN [pc |-> "fanout", chunk |-> r.data]
                 ELSE [pc |-> "loop", chunk |-> <<>>]
        /\ fanned' = IF r.data # <<>> THEN Append(fanned, r.data) ELSE fanned
        /\ UNCHANGED srcVars
        /\ UNCHANGED icyVars
        /\ UNCHANGED now
        /\ UNCHANGED wk0
        /\ UNCHANGED <<ringHist, listeners, next_listener_id, running, writer, hpc,
                       hid, emitted, produced>>

\* info['writer'].write(chunk) or info['writer'].flush() raises
write_raises(lid) == writer[listeners[lid].writer].raises

\* a fan-out with no try/except around a listener's write
fanout_catches_never == FALSE

\* try: write, flush, count; except Exception as e: logger.error(...)
fanout_catches == TRUE

\* the ids the loop of _broadcast_chunk gets to, in the order of the table:
\* all of them when an exception is caught; otherwise none after the first
\* whose write raises
Reached ==
    {lid \in DOMAIN listeners :
        fanout_catches \/ \A k \in DOMAIN listeners : k < lid => ~write_raises(k)}

\* the ids whose write and flush returned
Written == {lid \in Reached : ~write_raises(lid)}

\* _broadcast_chunk under listeners_lock: for every registered listener
\* writer.write(chunk), flush, bytes_sent += len(chunk), an exception of one
\* listener being logged; then sleep and loop. An exception nothing catches
\* ends the thread.
WorkerFanout ==
    /\ wk.pc = "fanout"
    /\ \A h \in Handlers : Registered(h) /\ writer[h].active => ~put_waits(writer[h].queue)
    /\ writer' = [h \in Handlers |->
                    IF \E lid \in Written : listeners[lid].writer = h
                    THEN StreamWriter_write(writer[h], wk.chunk)
                    ELSE writer[h]]
    /\ listeners' = [lid \in DOMAIN listeners |->
                        IF lid \in Written
                        THEN [listeners[lid] EXCEPT !.bytes_sent = @ + Len(wk.chunk)]
                        ELSE listeners[lid]]
    /\ wk' = IF fanout_catches \/ \A lid \in DOMAIN listeners : ~write_raises(lid)
             THEN [pc |-> "loop", chunk |-> <<>>]
             ELSE [pc |-> "died", chunk |-> <<>>]
    /\ UNCHANGED srcVars
    /\ UNCHANGED icyVars
    /\ UNCHANGED now
    /\ UNCHANGED wk0
    /\ UNCHANGED <<audio_buffer, ringHist, next_listener_id, running, hpc, hid,
                   emitted, fanned, produced>>

\* the broadcast thread with no listener registered: a whole chunk is read
\* and handed to nobody
Drain ==
    /\ running /\ wk.pc = "loop"
    /\ has_chunk(audio_buffer)
    /\ audio_buffer' = read(audio_buffer, chunk_size).buf
    /\ UNCHANGED <<ringHist, bcastVars, srcVars>>

-----------------------------------------------------------------------------
(* flask_app.py: _serve_stream.generate, one per listener connection *)

\* request.headers.get('Icy-MetaData'): "1", another value, or absent
IcyHeaders == {"1", "0", "absent"}

\* the ICY part of the response headers: icy-metaint is set when the request
\* carried Icy-MetaData: 1 and metadata.enable_icy is on (None: not set)
response_headers(icy_header) ==
    [icy_metaint |-> IF icy_header = "1" /\ enable_icy THEN icy_metaint ELSE None]

\* the response headers are built, then the body generator starts:
\* writer = StreamWriter(); listener_id = broadcaster.add_listener(writer)
\* (listener connections are numbered in the order their generators start)
Connect(h, icy_header) ==
    /\ hpc[h] = "idle"
    /\ \A g \in Handlers : g < h => hpc[g] # "idle"
    /\ headers' = [headers EXCEPT ![h] = response_headers(icy_header)]
    /\ writer' = [writer EXCEPT ![h] = StreamWriter]
    /\ add_listener(h)
    /\ hid' = [hid EXCEPT ![h] = next_listener_id]
    /\ hpc' = [hpc EXCEPT ![h] = "loop"]
    /\ UNCHANGED srcVars
    /\ UNCHANGED enable_icy
    /\ UNCHANGED now
    /\ UNCHANGED wk0
    /\ UNCHANGED <<audio_buffer, ringHist, running, wk, emitted, fanned, produced>>

\* while broadcaster.is_listener_active(listener_id):
\*     data = writer.queue.get(timeout=0.5); yield data
\* (the loop ends when the id is no longer registered)
HandlerGet(h) ==
    /\ hpc[h] = "loop"
    /\ IF is_listener_active(hid[h])
       THEN /\ writer[h].queue # <<>>
            /\ writer' = [writer EXCEPT ![h].queue = Tail(@)]
            /\ emitted' = [emitted EXCEPT ![h] = Append(@, Head(writer[h].queue))]
            /\ hpc' = [hpc EXCEPT ![h] = "yield"]
       ELSE /\ hpc' = [hpc EXCEPT ![h] = "finally"]
            /\ UNCHANGED <<writer, emitted>>
    /\ UNCHANGED srcVars
    /\ UNCHANGED icyVars
    /\ UNCHANGED now
    /\ UNCHANGED wk0
    /\ UNCHANGED <<audio_buffer, ringHist, listeners, next_listener_id, running, wk,
                   hid, fanned, produced>>

\* queue.Empty after the timeout: continue
HandlerTimeout(h) ==
    /\ hpc[h] = "loop"
    /\ is_listener_active(hid[h])
    /\ writer[h].queue = <<>>
    /\ UNCHANGED vars

\* the server took the yielded data and asks for more
HandlerResume(h) ==
    /\ hpc[h] = "yield"
    /\ hpc' = [hpc EXCEPT ![h] = "loop"]
    /\ UNCHANGED srcVars
    /\ UNCHANGED icyVars
    /\ UNCHANGED now
    /\ UNCHANGED wk0
    /\ UNCHANGED <<audio_buffer, ringHist, listeners, next_listener_id, running, wk,
                   writer, hid, emitted, fanned, produced>>

\* the client went away: GeneratorExit is raised at the yield
HandlerDisconnect(h) ==
    /\ hpc[h] = "yield"
    /\ hpc' = [hpc EXCEPT ![h] = "finally"]
    /\ UNCHANGED srcVars
    /\ UNCHANGED icyVars
    /\ UNCHANGED now
    /\ UNCHANGED wk0
    /\ UNCHANGED <<audio_buffer, ringHist, listeners, next_listener_id, running, wk,
                   writer, hid, emitted, fanned, produced>>

\* finally: writer.close()
HandlerClose(h) ==
    /\ hpc[h] = "finally"
    /\ writer' = [writer EXCEPT ![h] = StreamWriter_close(@)]
    /\ hpc' = [hpc EXCEPT ![h] = "remove"]
    /\ UNCHANGED srcVars
    /\ UNCHANGED icyVars
    /\ UNCHANGED now
    /\ UNCHANGED wk0
    /\ UNCHANGED <<audio_buffer, ringHist, listeners, next_listener_id, running, wk,
                   hid, emitted, fanned, produced>>

\* finally: broadcaster.remove_listener(listener_id)
HandlerRemove(h) ==
    /\ hpc[h] = "remove"
    /\ remove_listener(hid[h])
    /\ hpc' = [hpc EXCEPT ![h] = "done"]
    /\ UNCHANGED srcVars
    /\ UNCHANGED icyVars
    /\ UNCHANGED now
    /\ UNCHANGED wk0
    /\ UNCHANGED <<audio_buffer, ringHist, next_listener_id, running, wk, writer,
                   hid, emitted, fanned, produced>>

-----------------------------------------------------------------------------
(* The producer of the broadcaster harness: each write hands the buffer    *)
(* chunk_size bytes carrying the number of the write, as diagnose.py and   *)
(* test_cython.py feed the buffer                                          *)

Produce ==
    LET r == write(audio_buffer, [i \in 1 .. chunk_size |-> produced + 1])
    IN  /\ produced < MaxProduced
        /\ r.ret
        /\ audio_buffer' = r.buf
        /\ produced' = produced + 1
        /\ UNCHANGED srcVars
        /\ UNCHANGED icyVars
        /\ UNCHANGED now
        /\ UNCHANGED wk0
        /\ UNCHANGED <<ringHist, listeners, next_listener_id, running, wk, writer,
                       hpc, hid, emitted, fanned>>

InitBroadcast ==
    /\ audio_buffer = CircularAudioBuffer
    /\ wrote = <<>>
    /\ got = <<>>
    /\ call = [op |-> "none", data |-> <<>>, n |-> 0, ret |-> FALSE]
    /\ InitBroadcaster
    /\ InitServer

NextBroadcast ==
    \/ Start
    \/ Stop
    \/ WorkerLoop
    \/ WorkerRead
    \/ WorkerFanout
    \/ Produce
    \/ \E h \in Handlers, icy_header \in IcyHeaders : Connect(h, icy_header)
    \/ \E h \in Handlers : HandlerGet(h)
    \/ \E h \in Handlers : HandlerTimeout(h)
    \/ \E h \in Handlers : HandlerResume(h)
    \/ \E h \in Handlers : HandlerDisconnect(h)
    \/ \E h \in Handlers : HandlerClose(h)
    \/ \E h \in Handlers : HandlerRemove(h)

SpecBroadcast == InitBroadcast /\ [][NextBroadcast]_vars

-----------------------------------------------------------------------------
(* Listeners with and without Icy-MetaData: 1, ICY enabled or disabled in  *)
(* the configuration, the broadcaster running from the start               *)

InitIcy ==
    /\ audio_buffer = CircularAudioBuffer
    /\ wrote = <<>>
    /\ got = <<>>
    /\ call = [op |-> "none", data |-> <<>>, n |-> 0, ret |-> FALSE]
    /\ listeners = <<>>
    /\ next_listener_id = 0
    /\ running = TRUE
    /\ wk = [pc |-> "loop", chunk |-> <<>>]
    /\ writer = [h \in Handlers |-> StreamWriter]
    /\ hpc = [h \in Handlers |-> "idle"]
    /\ hid = [h \in Handlers |-> -1]
    /\ emitted = [h \in Handlers |-> <<>>]
    /\ fanned = <<>>
    /\ produced = 0
    /\ enable_icy \in BOOLEAN
    /\ now = 0
    /\ wk0 = [pc |-> "none", chunk |-> <<>>]
    /\ headers = [h \in Handlers |-> [icy_metaint |-> None]]
    /\ InitServer

NextIcy ==
    \/ WorkerLoop
    \/ WorkerRead
    \/ WorkerFanout
    \/ Produce
    \/ \E h \in Handlers, icy_header \in IcyHeaders : Connect(h, icy_header)
    \/ \E h \in Handlers : HandlerGet(h)
    \/ \E h \in Handlers : HandlerTimeout(h)
    \/ \E h \in Handlers : HandlerResume(h)
    \/ \E h \in Handlers : HandlerDisconnect(h)
    \/ \E h \in Handlers : HandlerClose(h)
    \/ \E h \in Handlers : HandlerRemove(h)

SpecIcy == InitIcy /\ [][NextIcy]_vars

-----------------------------------------------------------------------------
(* The pipeline as diagnose.py drives it: the broadcaster is started, data *)
(* of any length is written to the buffer, listeners are added and read    *)
(* what reaches them. The broadcast thread is scheduled fairly.            *)

\* buf.write(data) with data of 1 .. chunk_size bytes
ProduceData(n) ==
    LET data == [i \in 1 .. n |-> produced + 1]
        r == write(audio_buffer, data)
    IN  /\ produced < MaxProduced
        /\ r.ret
        /\ audio_buffer' = r.buf
        /\ produced' = produced + 1
        /\ wrote' = wrote \o data
        /\ UNCHANGED srcVars
        /\ UNCHANGED icyVars
        /\ UNCHANGED now
        /\ UNCHANGED wk0
        /\ UNCHANGED <<got, call, listeners, next_listener_id, running, wk, writer,
                       hpc, hid, emitted, fanned>>

InitDeliver == InitIcy /\ ~enable_icy

NextDeliver ==
    \/ WorkerLoop
    \/ WorkerRead
    \/ WorkerFanout
    \/ \E n \in 1 .. chunk_size : ProduceData(n)
    \/ \E h \in Handlers, icy_header \in IcyHeaders : Connect(h, icy_header)
    \/ \E h \in Handlers : HandlerGet(h)
    \/ \E h \in Handlers : HandlerTimeout(h)
    \/ \E h \in Handlers : HandlerResume(h)

SpecDeliver ==
    /\ InitDeliver
    /\ [][NextDeliver]_vars
    /\ WF_vars(WorkerLoop)
    /\ WF_vars(WorkerRead)
    /\ WF_vars(WorkerFanout)

-----------------------------------------------------------------------------
(* The broadcaster as test_cython.py and diagnose.py drive it: listeners   *)
(* are added and removed by the test itself, remove_listener is called on  *)
(* any id, data is written and broadcast meanwhile                         *)

ListenerIds == 0 .. MaxHandlers

\* listener = QueueListener(); listener_id = broadcaster.add_listener(listener)
\* (the test's listeners are numbered in the order they are added)
AddCall(h) ==
    /\ hpc[h] = "idle"
    /\ \A g \in Handlers : g < h => hpc[g] # "idle"
    /\ writer' = [writer EXCEPT ![h] = StreamWriter]
    /\ add_listener(h)
    /\ hid' = [hid EXCEPT ![h] = next_listener_id]
    /\ hpc' = [hpc EXCEPT ![h] = "added"]
    /\ UNCHANGED srcVars
    /\ UNCHANGED icyVars
    /\ UNCHANGED now
    /\ UNCHANGED wk0
    /\ UNCHANGED <<audio_buffer, ringHist, running, wk, emitted, fanned, produced>>

\* broadcaster.remove_listener(listener_id)
RemoveCall(listener_id) ==
    /\ remove_listener(listener_id)
    /\ call' = [op |-> "remove_listener", data |-> <<>>, n |-> listener_id,
                ret |-> is_listener_active(listener_id)]
    /\ UNCHANGED srcVars
    /\ UNCHANGED icyVars
    /\ UNCHANGED now
    /\ UNCHANGED wk0
    /\ UNCHANGED <<audio_buffer, wrote, got, next_listener_id, running, wk, writer,
                   hpc, hid, emitted, fanned, produced>>

NextRegistry ==
    \/ WorkerLoop
    \/ WorkerRead
    \/ WorkerFanout
    \/ Produce
    \/ \E h \in Handlers : AddCall(h)
    \/ \E listener_id \in ListenerIds : RemoveCall(listener_id)

SpecRegistry == InitDeliver /\ [][NextRegistry]_vars

-----------------------------------------------------------------------------
(* Listeners whose writer fails: add_listener takes any object with write  *)
(* and flush, and _broadcast_chunk expects either of them to raise         *)

\* the writer of a registered listener starts raising on write
Break(h) ==
    /\ Registered(h)
    /\ ~writer[h].raises
    /\ writer' = [writer EXCEPT ![h].raises = TRUE]
    /\ UNCHANGED srcVars
    /\ UNCHANGED icyVars
    /\ UNCHANGED now
    /\ UNCHANGED wk0
    /\ UNCHANGED <<audio_buffer, ringHist, listeners, next_listener_id, running, wk,
                   hpc, hid, emitted, fanned, produced>>

NextFanoutError ==
    \/ WorkerLoop
    \/ WorkerRead
    \/ WorkerFanout
    \/ Produce
    \/ \E h \in Handlers : AddCall(h)
    \/ \E h \in Handlers : Break(h)

SpecFanoutError == InitDeliver /\ [][NextFanoutError]_vars

-----------------------------------------------------------------------------
(* Listeners that join a running stream: the broadcaster has been reading  *)
(* chunks, with or without listeners, when add_listener is called          *)

\* listener_id = broadcaster.add_listener(writer) (history: data, the
\* listener; n, the chunks read from the buffer before the call returned;
\* ret, the broadcast thread was holding the last of them, read and not yet
\* fanned out)
JoinCall(h) ==
    /\ hpc[h] = "idle"
    /\ \A g \in Handlers : g < h => hpc[g] # "idle"
    /\ writer' = [writer EXCEPT ![h] = StreamWriter]
    /\ add_listener(h)
    /\ hid' = [hid EXCEPT ![h] = next_listener_id]
    /\ hpc' = [hpc EXCEPT ![h] = "added"]
    /\ call' = [op |-> "add_listener", data |-> <<h>>, n |-> Len(fanned),
                ret |-> wk.pc = "fanout"]
    /\ UNCHANGED srcVars
    /\ UNCHANGED icyVars
    /\ UNCHANGED now
    /\ UNCHANGED wk0
    /\ UNCHANGED <<audio_buffer, wrote, got, running, wk, emitted, fanned, produced>>

NextJoin ==
    \/ WorkerLoop
    \/ WorkerRead
    \/ WorkerFanout
    \/ Produce
    \/ \E h \in Handlers : JoinCall(h)

SpecJoin == InitDeliver /\ [][NextJoin]_vars

-----------------------------------------------------------------------------
(* The status read-model: while listeners come and go and time passes,     *)
(* flask_app.py asks the broadcaster for its listener count (/, /api/status)*)
(* and its statistics (/api/stats), as test_cython.py does                 *)

\* time passes
Tick ==
    /\ now < MaxNow
    /\ now' = now + 1
    /\ UNCHANGED wk0
    /\ UNCHANGED srcVars
    /\ UNCHANGED icyVars
    /\ UNCHANGED <<audio_buffer, ringHist, listeners, next_listener_id, running, wk,
                   writer, hpc, hid, emitted, fanned, produced>>

\* broadcaster.get_listener_count(): the attribute is looked up on the
\* broadcaster; when the class does not define it the lookup raises
\* AttributeError and nothing is returned (ret FALSE, n -1)
CountCall ==
    /\ call' = [op |-> "get_listener_count", data |-> <<>>, n |-> -1,
                ret |-> "get_listener_count" \in StreamBroadcaster_methods]
    /\ UNCHANGED srcVars
    /\ UNCHANGED icyVars
    /\ UNCHANGED now
    /\ UNCHANGED wk0
    /\ UNCHANGED <<audio_buffer, wrote, got, listeners, next_listener_id, running, wk,
                   writer, hpc, hid, emitted, fanned, produced>>

\* stats = broadcaster.get_stats()
StatsCall ==
    /\ call' = [op |-> "get_stats", data |-> get_stats, n |-> 0, ret |-> TRUE]
    /\ UNCHANGED srcVars
    /\ UNCHANGED icyVars
    /\ UNCHANGED now
    /\ UNCHANGED wk0
    /\ UNCHANGED <<audio_buffer, wrote, got, listeners, next_listener_id, running, wk,
                   writer, hpc, hid, emitted, fanned, produced>>

NextStatus ==
    \/ WorkerLoop
    \/ WorkerRead
    \/ WorkerFanout
    \/ Produce
    \/ Tick
    \/ \E h \in Handlers : AddCall(h)
    \/ \E listener_id \in ListenerIds : RemoveCall(listener_id)
    \/ CountCall
    \/ StatsCall

SpecStatus == InitDeliver /\ [][NextStatus]_vars

-----------------------------------------------------------------------------
(* The broadcaster's lifecycle as one thread drives it (test_cython.py,    *)
(* diagnose.py, StreamServer.start and stop): start() and stop() are called *)
(* in any order and any number of times; stop() returns when its join has  *)
(* seen the broadcast thread end, so the next call comes after that        *)

\* the thread a start() creates: at the head of _broadcast_loop
NewThread == [pc |-> "loop", chunk |-> <<>>]

\* a start() that does not look at the flag
start_unguarded == [running |-> TRUE, wk |-> NewThread]

\* start(): if not self.running: set the flag, create and start the thread
start ==
    IF ~running
    THEN [running |-> TRUE, wk |-> NewThread]
    ELSE [running |-> running, wk |-> wk]

\* stop(): if self.running: clear the flag (the join follows)
stop ==
    IF running
    THEN [running |-> FALSE, wk |-> wk]
    ELSE [running |-> running, wk |-> wk]

\* no stop() is waiting in its join
Joined == running \/ wk.pc \in {"none", "exited"}

\* broadcaster.start() (history: ret, the flag was clear; n, the chunks
\* fanned out before the call)
StartCall ==
    /\ Joined
    /\ running' = start.running
    /\ wk' = start.wk
    /\ call' = [op |-> "start", data |-> <<>>, n |-> Len(fanned), ret |-> ~running]
    /\ UNCHANGED srcVars
    /\ UNCHANGED icyVars
    /\ UNCHANGED now
    /\ UNCHANGED wk0
    /\ UNCHANGED <<audio_buffer, wrote, got, listeners, next_listener_id, writer, hpc,
                   hid, emitted, fanned, produced>>

\* broadcaster.stop() (history: ret, the flag was set)
StopCall ==
    /\ Joined
    /\ running' = stop.running
    /\ wk' = stop.wk
    /\ call' = [op |-> "stop", data |-> <<>>, n |-> Len(fanned), ret |-> running]
    /\ UNCHANGED srcVars
    /\ UNCHANGED icyVars
    /\ UNCHANGED now
    /\ UNCHANGED wk0
    /\ UNCHANGED <<audio_buffer, wrote, got, listeners, next_listener_id, writer, hpc,
                   hid, emitted, fanned, produced>>

NextLifecycle ==
    \/ StartCall
    \/ StopCall
    \/ WorkerLoop
    \/ WorkerRead
    \/ WorkerFanout
    \/ Produce
    \/ \E h \in Handlers : AddCall(h)

SpecLifecycle == InitBroadcast /\ [][NextLifecycle]_vars

\* the broadcast thread is a thread the scheduler keeps running: each step
\* of its loop is taken if it stays possible
SpecLifecycleFair ==
    /\ InitBroadcast
    /\ [][NextLifecycle]_vars
    /\ WF_vars(WorkerLoop)
    /\ WF_vars(WorkerRead)
    /\ WF_vars(WorkerFanout)

-----------------------------------------------------------------------------
(* The lifecycle when stop() does not wait to the end: its                 *)
(* join(timeout=2.0) gives up while the broadcast thread is still inside a *)
(* fan-out (add_listener takes any writer, and a writer may be slow to     *)
(* take the chunk); stop() returns and start() is called again. One such   *)
(* left-over thread is followed.                                           *)

\* broadcaster.start() after a stop() whose join timed out: the flag is
\* clear, so a new thread is created and self.broadcast_thread is
\* overwritten; the old thread lives on
StartAfterTimeout ==
    /\ ~running
    /\ wk.pc = "fanout"
    /\ wk0.pc \in {"none", "exited"}
    /\ running' = start.running
    /\ wk' = start.wk
    /\ wk0' = wk
    /\ call' = [op |-> "start", data |-> <<>>, n |-> Len(fanned), ret |-> ~running]
    /\ UNCHANGED srcVars
    /\ UNCHANGED icyVars
    /\ UNCHANGED now
    /\ UNCHANGED <<audio_buffer, wrote, got, listeners, next_listener_id, writer, hpc,
                   hid, emitted, fanned, produced>>

\* _broadcast_loop in the old thread, loop head: it looks at the same flag
OldLoop ==
    /\ wk0.pc = "loop"
    /\ IF sees_stop
       THEN wk0' = [wk0 EXCEPT !.pc = "exited"]
       ELSE /\ has_chunk(audio_buffer)
            /\ wk0' = [wk0 EXCEPT !.pc = "read"]
    /\ UNCHANGED srcVars
    /\ UNCHANGED icyVars
    /\ UNCHANGED now
    /\ UNCHANGED <<audio_buffer, ringHist, listeners, next_listener_id, running, wk,
                   writer, hpc, hid, emitted, fanned, produced>>

\* _broadcast_loop in the old thread: chunk = audio_buffer.read(chunk_size)
OldRead ==
    LET r == read(audio_buffer, chunk_size)
    IN  /\ wk0.pc = "read"
        /\ audio_buffer' = r.buf
        /\ wk0' = IF r.data # <<>>
                  THEN [pc |-> "fanout", chunk |-> r.data]
                  ELSE [pc |-> "loop", chunk |-> <<>>]
        /\ fanned' = IF r.data # <<>> THEN Append(fanned, r.data) ELSE fanned
        /\ UNCHANGED srcVars
        /\ UNCHANGED icyVars
        /\ UNCHANGED now
        /\ UNCHANGED <<ringHist, listeners, next_listener_id, running, wk, writer, hpc,
                       hid, emitted, produced>>

\* _broadcast_chunk in the old thread
OldFanout ==
    /\ wk0.pc = "fanout"
    /\ writer' = [h \in Handlers |->
                    IF \E lid \in Written : listeners[lid].writer = h
                    THEN StreamWriter_write(writer[h], wk0.chunk)
                    ELSE writer[h]]
    /\ listeners' = [lid \in DOMAIN listeners |->
                        IF lid \in Written
                        THEN [listeners[lid] EXCEPT !.bytes_sent = @ + Len(wk0.chunk)]
                        ELSE listeners[lid]]
    /\ wk0' = [pc |-> "loop", chunk |-> <<>>]
    /\ UNCHANGED srcVars
    /\ UNCHANGED icyVars
    /\ UNCHANGED now
    /\ UNCHANGED <<audio_buffer, ringHist, next_listener_id, running, wk, hpc, hid,
                   emitted, fanned, produced>>

NextRestart ==
    \/ StartCall
    \/ StopCall
    \/ StartAfterTimeout
    \/ WorkerLoop
    \/ WorkerRead
    \/ WorkerFanout
    \/ OldLoop
    \/ OldRead
    \/ OldFanout
    \/ Produce
    \/ \E h \in Handlers : AddCall(h)

SpecRestart == InitBroadcast /\ [][NextRestart]_vars

-----------------------------------------------------------------------------
(* The server after StreamServer.start(): the feeder thread, the source    *)
(* handlers the acceptor starts, and the running broadcaster               *)

InitSource ==
    /\ audio_buffer = CircularAudioBuffer
    /\ wrote = <<>>
    /\ got = <<>>
    /\ call = [op |-> "none", data |-> <<>>, n |-> 0, ret |-> FALSE]
    /\ listeners = <<>>
    /\ next_listener_id = 0
    /\ running = TRUE
    /\ wk = [pc |-> "loop", chunk |-> <<>>]
    /\ writer = [h \in Handlers |-> StreamWriter]
    /\ hpc = [h \in Handlers |-> "idle"]
    /\ hid = [h \in Handlers |-> -1]
    /\ emitted = [h \in Handlers |-> <<>>]
    /\ fanned = <<>>
    /\ produced = 0
    /\ enable_icy = FALSE
    /\ now = 0
    /\ wk0 = [pc |-> "none", chunk |-> <<>>]
    /\ headers = [h \in Handlers |-> [icy_metaint |-> None]]
    /\ InitServer

NextSource ==
    \/ Drain
    \/ \E c \in Conns : \E req \in Requests : Handshake(c, req)
    \/ \E c \in Conns : Attach(c)
    \/ \E c \in Conns : SetLiveMetadata(c)
    \/ \E c \in Conns : Recv(c)
    \/ \E c \in Conns : RecvEnd(c)
    \/ \E c \in Conns : SourceWrite(c)
    \/ \E c \in Conns : Finally(c)
    \/ \E c \in Conns : CloseConn(c)

SpecSource == InitSource /\ [][NextSource]_vars

\* The same server with a source whose stream carries a StreamTitle: one
\* received chunk of any content, sniffed and written
TitleTexts ==
    SeqsUpTo({"a", " ", "-"}, MaxTitle) \cup SeqsUpTo({"a", " ", "-", "'", ";", "?"}, MaxNoise)

ChunkTexts ==
    { pre \o mark \o x \o term :
        pre \in {<<>>, <<"a">>},
        mark \in {<<>>, StreamTitleEq, StreamTitleQuote},
        x \in TitleTexts,
        term \in {<<>>, QuoteSemi} }

GoodRequest == [complete |-> TRUE, method |-> S_SOURCE, lines |-> <<GoodLine>>]

NextSniff ==
    \/ \E c \in Conns : Handshake(c, GoodRequest)
    \/ \E c \in Conns : Attach(c)
    \/ \E c \in Conns : SetLiveMetadata(c)
    \/ \E c \in Conns :
          cpc[c] = "recv" /\ call.op = "none" /\ \E text \in ChunkTexts : RecvText(c, text)
    \/ \E c \in Conns : RecvEnd(c)
    \/ \E c \in Conns : SourceWrite(c)
    \/ \E c \in Conns : Finally(c)
    \/ \E c \in Conns : CloseConn(c)

SpecSniff == InitSource /\ [][NextSniff]_vars

\* The server with a playlist and sources whose stream changes its title,
\* while the status page is read: _get_status_data copies the metadata
\* under metadata_lock
TitleChunks ==
    { StreamTitleQuote \o <<"a", " ", "-", " ", "b">> \o QuoteSemi,
      <<"x">> \o StreamTitleQuote \o <<"c">> \o QuoteSemi,
      <<"x">> }

\* with self.stream_server.metadata_lock: metadata = current_metadata.copy()
\* (history: call holds the copy)
StatusRead ==
    /\ call' = [op |-> "status", data |-> current_metadata, n |-> 0, ret |-> TRUE]
    /\ UNCHANGED <<audio_buffer, wrote, got, bcastVars, srcVars>>

NextMetadata ==
    \/ FeederIdle
    \/ FeederMeta
    \/ FeederRead
    \/ FeederWrite
    \/ Drain
    \/ \E c \in Conns : Handshake(c, GoodRequest)
    \/ \E c \in Conns : Attach(c)
    \/ \E c \in Conns : SetLiveMetadata(c)
    \/ \E c \in Conns : \E text \in TitleChunks : RecvTitle(c, text)
    \/ \E c \in Conns : RecvEnd(c)
    \/ \E c \in Conns : SourceWrite(c)
    \/ \E c \in Conns : Finally(c)
    \/ \E c \in Conns : CloseConn(c)
    \/ StatusRead

\* The same server with a playlist loaded: start() also starts the feeder.
\* Source clients here send a well-formed request with the right or a wrong
\* password.
FallbackRequests ==
    {[complete |-> TRUE, method |-> S_SOURCE, lines |-> <<l>>] :
        l \in {GoodLine, WrongLine}}

InitFallback ==
    /\ audio_buffer = CircularAudioBuffer
    /\ wrote = <<>>
    /\ got = <<>>
    /\ call = [op |-> "none", data |-> <<>>, n |-> 0, ret |-> FALSE]
    /\ listeners = <<>>
    /\ next_listener_id = 0
    /\ running = TRUE
    /\ wk = [pc |-> "loop", chunk |-> <<>>]
    /\ writer = [h \in Handlers |-> StreamWriter]
    /\ hpc = [h \in Handlers |-> "idle"]
    /\ hid = [h \in Handlers |-> -1]
    /\ emitted = [h \in Handlers |-> <<>>]
    /\ fanned = <<>>
    /\ produced = 0
    /\ enable_icy = FALSE
    /\ now = 0
    /\ wk0 = [pc |-> "none", chunk |-> <<>>]
    /\ headers = [h \in Handlers |-> [icy_metaint |-> None]]
    /\ current_source = None
    /\ current_metadata = station_name
    /\ playlist_files = [i \in 1 .. NumFiles |-> i]
    /\ playlist_active = FALSE
    /\ feeder = [pc |-> "idle", current_file_index |-> 0, pos |-> 0, chunk |-> <<>>]
    /\ cpc = [c \in Conns |-> "idle"]
    /\ cchunk = [c \in Conns |-> <<>>]
    /\ closed = [c \in Conns |-> FALSE]
    /\ response = [c \in Conns |-> "none"]
    /\ expect = [c \in Conns |-> "none"]
    /\ was_source = [c \in Conns |-> FALSE]
    /\ late_writes = 0
    /\ request = [c \in Conns |-> <<>>]
    /\ unread = [c \in Conns |-> <<>>]

NextFallback ==
    \/ FeederIdle
    \/ FeederMeta
    \/ FeederRead
    \/ FeederWrite
    \/ Drain
    \/ \E c \in Conns : \E req \in FallbackRequests : Handshake(c, req)
    \/ \E c \in Conns : Attach(c)
    \/ \E c \in Conns : SetLiveMetadata(c)
    \/ \E c \in Conns : Recv(c)
    \/ \E c \in Conns : RecvEnd(c)
    \/ \E c \in Conns : SourceWrite(c)
    \/ \E c \in Conns : Finally(c)
    \/ \E c \in Conns : CloseConn(c)

SpecFallback == InitFallback /\ [][NextFallback]_vars

\* the feeder thread and the broadcast thread are daemon threads the
\* scheduler keeps running: each of their steps is taken if it stays
\* possible. The feeder's write is retried every 0.1 ms for as long as it is
\* refused, so it gets through if the buffer has room again and again.
SpecFallbackFair ==
    /\ InitFallback
    /\ [][NextFallback]_vars
    /\ WF_vars(FeederIdle)
    /\ WF_vars(FeederMeta)
    /\ WF_vars(FeederRead)
    /\ SF_vars(FeederWrite)
    /\ WF_vars(Drain)

SpecMetadata == InitFallback /\ [][NextMetadata]_vars

\* The server shut down with Ctrl+C while the playlist plays and sources
\* come and go.

\* except KeyboardInterrupt: self.broadcaster.stop(); IOLoop.current().stop()
\* (history: call records the request)
Shutdown ==
    /\ call.op # "shutdown"
    /\ running' = stop.running
    /\ call' = [op |-> "shutdown", data |-> <<>>, n |-> 0, ret |-> TRUE]
    /\ UNCHANGED srcVars
    /\ UNCHANGED icyVars
    /\ UNCHANGED now
    /\ UNCHANGED wk0
    /\ UNCHANGED <<audio_buffer, wrote, got, listeners, next_listener_id, wk, writer, hpc,
                   hid, emitted, fanned, produced>>

\* start() returns, the script ends and the interpreter exits: the feeder,
\* the acceptor and the handlers are daemon threads running `while True`
\* loops, and stop where they are - no statement of theirs runs any more,
\* no finally block either
Exit ==
    /\ call.op = "shutdown"
    /\ feeder.pc # "killed"
    /\ feeder' = [feeder EXCEPT !.pc = "killed"]
    /\ cpc' = [c \in Conns |-> IF cpc[c] = "done" THEN "done" ELSE "killed"]
    /\ UNCHANGED <<audio_buffer, ringHist, bcastVars, current_source, current_metadata,
                   playlist_files, playlist_active, cchunk, closed, response, expect,
                   was_source, late_writes, request, unread>>

NextShutdown ==
    \/ NextFallback
    \/ Shutdown
    \/ Exit

\* every thread of the server is scheduled, its retry loops get through if
\* the buffer has room again and again, and the main thread, once
\* interrupted, runs on to the end of the script
SpecShutdownFair ==
    /\ InitFallback
    /\ [][NextShutdown]_vars
    /\ WF_vars(FeederIdle)
    /\ WF_vars(FeederMeta)
    /\ WF_vars(FeederRead)
    /\ SF_vars(FeederWrite)
    /\ WF_vars(Drain)
    /\ \A c \in Conns : WF_vars(Attach(c))
    /\ \A c \in Conns : WF_vars(SetLiveMetadata(c))
    /\ \A c \in Conns : SF_vars(SourceWrite(c))
    /\ \A c \in Conns : WF_vars(Finally(c))
    /\ \A c \in Conns : WF_vars(CloseConn(c))
    /\ WF_vars(Exit)

\* every producer's write is retried after a short sleep for as long as it is
\* refused (0.1 ms in the feeder, 1 ms in a source handler), so it gets
\* through if the buffer has room again and again
SpecProducersFair ==
    /\ SpecFallbackFair
    /\ \A c \in Conns : SF_vars(SourceWrite(c))

\* The server with one file in its playlist, of any content: the feeder
\* plays it once. Files that do not start with a tag are short; files that
\* do, end up to MaxAudio bytes after the offset their header declares, or
\* before it.
SizeBytes == {0, 1, 129, 255}

Heads ==
    { magic \o <<4, 0, 0>> \o <<b6, b7>> \o <<b8, b9>> :
        magic \in {ID3, <<"I", "D", "4">>, <<"R", "I", "F">>},
        b6 \in {0, 129}, b7 \in {0, 129}, b8 \in SizeBytes, b9 \in SizeBytes }

FileLengths(head) ==
    (0 .. 10 + MaxAudio)
    \cup (IF SubSeq(head, 1, 3) = ID3
          THEN 10 + synchsafe(head) .. 10 + synchsafe(head) + MaxAudio
          ELSE {})

Files == UNION { {[head |-> head, length |-> n] : n \in FileLengths(head)} : head \in Heads }

InitID3 ==
    /\ audio_buffer = CircularAudioBuffer
    /\ wrote = <<>>
    /\ got = <<>>
    /\ call = [op |-> "none", data |-> <<>>, n |-> 0, ret |-> FALSE]
    /\ listeners = <<>>
    /\ next_listener_id = 0
    /\ running = TRUE
    /\ wk = [pc |-> "loop", chunk |-> <<>>]
    /\ writer = [h \in Handlers |-> StreamWriter]
    /\ hpc = [h \in Handlers |-> "idle"]
    /\ hid = [h \in Handlers |-> -1]
    /\ emitted = [h \in Handlers |-> <<>>]
    /\ fanned = <<>>
    /\ produced = 0
    /\ enable_icy = FALSE
    /\ now = 0
    /\ wk0 = [pc |-> "none", chunk |-> <<>>]
    /\ headers = [h \in Handlers |-> [icy_metaint |-> None]]
    /\ current_source = None
    /\ current_metadata = station_name
    /\ playlist_files \in {<<file>> : file \in Files}
    /\ playlist_active = FALSE
    /\ feeder = [pc |-> "idle", current_file_index |-> 0, pos |-> 0, chunk |-> <<>>]
    /\ cpc = [c \in Conns |-> "idle"]
    /\ cchunk = [c \in Conns |-> <<>>]
    /\ closed = [c \in Conns |-> FALSE]
    /\ response = [c \in Conns |-> "none"]
    /\ expect = [c \in Conns |-> "none"]
    /\ was_source = [c \in Conns |-> FALSE]
    /\ late_writes = 0
    /\ request = [c \in Conns |-> <<>>]
    /\ unread = [c \in Conns |-> <<>>]

NextID3 ==
    \/ call.op = "none" /\ FeederIdle
    \/ FeederMetaFile
    \/ FeederOpen
    \/ FeederReadFile
    \/ FeederWriteFile
    \/ Drain

SpecID3 == InitID3 /\ [][NextID3]_vars

\* The server with a playlist of files of three kinds: a file without a tag,
\* a file with a tag, and a file that starts like a tag and ends before the
\* tenth byte (reading its header raises on every attempt). Sources attach
\* and leave while the playlist plays.
PlainFile == [head |-> <<"R", "I", "F", 4, 0, 0, 0, 0, 0, 0>>, length |-> 3]
TaggedFile == [head |-> ID3 \o <<4, 0, 0, 0, 0, 0, 1>>, length |-> 13]
TruncatedFile == [head |-> ID3 \o <<4, 0, 0, 0, 0, 0, 1>>, length |-> 5]

PlayFiles == {PlainFile, TaggedFile, TruncatedFile}

InitPlaylist ==
    /\ audio_buffer = CircularAudioBuffer
    /\ wrote = <<>>
    /\ got = <<>>
    /\ call = [op |-> "none", data |-> <<>>, n |-> 0, ret |-> FALSE]
    /\ listeners = <<>>
    /\ next_listener_id = 0
    /\ running = TRUE
    /\ wk = [pc |-> "loop", chunk |-> <<>>]
    /\ writer = [h \in Handlers |-> StreamWriter]
    /\ hpc = [h \in Handlers |-> "idle"]
    /\ hid = [h \in Handlers |-> -1]
    /\ emitted = [h \in Handlers |-> <<>>]
    /\ fanned = <<>>
    /\ produced = 0
    /\ enable_icy = FALSE
    /\ now = 0
    /\ wk0 = [pc |-> "none", chunk |-> <<>>]
    /\ headers = [h \in Handlers |-> [icy_metaint |-> None]]
    /\ current_source = None
    /\ current_metadata = station_name
    /\ playlist_files \in [1 .. NumFiles -> PlayFiles]
    /\ playlist_active = FALSE
    /\ feeder = [pc |-> "idle", current_file_index |-> 0, pos |-> 0, chunk |-> <<>>]
    /\ cpc = [c \in Conns |-> "idle"]
    /\ cchunk = [c \in Conns |-> <<>>]
    /\ closed = [c \in Conns |-> FALSE]
    /\ response = [c \in Conns |-> "none"]
    /\ expect = [c \in Conns |-> "none"]
    /\ was_source = [c \in Conns |-> FALSE]
    /\ late_writes = 0
    /\ request = [c \in Conns |-> <<>>]
    /\ unread = [c \in Conns |-> <<>>]

NextPlaylist ==
    \/ FeederIdle
    \/ FeederMetaFile
    \/ FeederOpen
    \/ FeederReadFile
    \/ Len(wrote) < MaxPlayed /\ FeederWriteFile
    \/ Drain
    \/ \E c \in Conns : Handshake(c, GoodRequest)
    \/ \E c \in Conns : Attach(c)
    \/ \E c \in Conns : SetLiveMetadata(c)
    \/ \E c \in Conns : Recv(c)
    \/ \E c \in Conns : RecvEnd(c)
    \/ \E c \in Conns : SourceWrite(c)
    \/ \E c \in Conns : Finally(c)
    \/ \E c \in Conns : CloseConn(c)

SpecPlaylist == InitPlaylist /\ [][NextPlaylist]_vars

-----------------------------------------------------------------------------
(* The source handler with the request read byte by byte: every client     *)
(* sends a well-formed request with the right password, the blank line     *)
(* that ends its headers, and audio; the network hands the bytes to recv   *)
(* in pieces of any size                                                   *)

\* b'\r\n\r\n'
CRLFCRLF == <<13, 10, 13, 10>>

\* the request line and the headers of a client, shortened to one byte ('S')
RequestHead == <<83>>

\* the audio client c sends: every byte tells its sender and its place
Body(c) == [i \in 1 .. MaxBody |-> 100 * c + i]

Sent(c) == RequestHead \o CRLFCRLF \o Body(c)

\* conn.recv(n) returned k bytes, 1 <= k <= n: the oldest unread ones
recv(c, k) == SubSeq(unread[c], 1, k)

\* while b'\r\n\r\n' not in request and len(request) < 8192
handshake_reads_on(c) ==
    bytes_find(request[c], CRLFCRLF, 0) = -1 /\ Len(request[c]) < request_limit

\* chunk = conn.recv(1024); request += chunk
HandshakeRecv(c) ==
    /\ cpc[c] = "idle"
    /\ \A d \in Conns : d < c => cpc[d] # "idle"
    /\ handshake_reads_on(c)
    /\ \E k \in 1 .. Min(handshake_recv_size, Len(unread[c])) :
          /\ request' = [request EXCEPT ![c] = @ \o recv(c, k)]
          /\ unread' = [unread EXCEPT ![c] = SubSeq(@, k + 1, Len(@))]
    /\ UNCHANGED <<audio_buffer, ringHist, bcastVars, current_source, current_metadata,
                   playlist_files, playlist_active, feeder, cpc, cchunk, closed, response,
                   expect, was_source, late_writes>>

\* the loop is left: request is decoded, split into lines, checked and
\* answered; nothing else is done with it
HandshakeParse(c) ==
    /\ ~handshake_reads_on(c)
    /\ SubSeq(request[c], 1, Len(RequestHead)) = RequestHead
    /\ Handshake(c, GoodRequest)

\* chunk = conn.recv(8192) returned data: sniffed, then written
RecvBytes(c) ==
    /\ cpc[c] = "recv"
    /\ ~closed[c]
    /\ \E k \in 1 .. Min(recv_size, Len(unread[c])) :
          /\ cchunk' = [cchunk EXCEPT ![c] = recv(c, k)]
          /\ current_metadata' = sniff(recv(c, k), current_metadata)
          /\ unread' = [unread EXCEPT ![c] = SubSeq(@, k + 1, Len(@))]
    /\ cpc' = [cpc EXCEPT ![c] = "write"]
    /\ UNCHANGED <<audio_buffer, ringHist, bcastVars, current_source, playlist_files,
                   playlist_active, feeder, closed, response, expect, was_source,
                   late_writes, request>>

InitBody ==
    /\ audio_buffer = CircularAudioBuffer
    /\ wrote = <<>>
    /\ got = <<>>
    /\ call = [op |-> "none", data |-> <<>>, n |-> 0, ret |-> FALSE]
    /\ listeners = <<>>
    /\ next_listener_id = 0
    /\ running = TRUE
    /\ wk = [pc |-> "loop", chunk |-> <<>>]
    /\ writer = [h \in Handlers |-> StreamWriter]
    /\ hpc = [h \in Handlers |-> "idle"]
    /\ hid = [h \in Handlers |-> -1]
    /\ emitted = [h \in Handlers |-> <<>>]
    /\ fanned = <<>>
    /\ produced = 0
    /\ enable_icy = FALSE
    /\ now = 0
    /\ wk0 = [pc |-> "none", chunk |-> <<>>]
    /\ headers = [h \in Handlers |-> [icy_metaint |-> None]]
    /\ current_source = None
    /\ current_metadata = station_name
    /\ playlist_files = <<>>
    /\ playlist_active = FALSE
    /\ feeder = [pc |-> "idle", current_file_index |-> 0, pos |-> 0, chunk |-> <<>>]
    /\ cpc = [c \in Conns |-> "idle"]
    /\ cchunk = [c \in Conns |-> <<>>]
    /\ closed = [c \in Conns |-> FALSE]
    /\ response = [c \in Conns |-> "none"]
    /\ expect = [c \in Conns |-> "none"]
    /\ was_source = [c \in Conns |-> FALSE]
    /\ late_writes = 0
    /\ request = [c \in Conns |-> <<>>]
    /\ unread = [c \in Conns |-> Sent(c)]

NextBody ==
    \/ WorkerLoop
    \/ WorkerRead
    \/ WorkerFanout
    \/ \E c \in Conns : HandshakeRecv(c)
    \/ \E c \in Conns : HandshakeParse(c)
    \/ \E c \in Conns : Attach(c)
    \/ \E c \in Conns : SetLiveMetadata(c)
    \/ \E c \in Conns : RecvBytes(c)
    \/ \E c \in Conns : RecvEnd(c)
    \/ \E c \in Conns : SourceWrite(c)
    \/ \E c \in Conns : Finally(c)
    \/ \E c \in Conns : CloseConn(c)

SpecBody == InitBody /\ [][NextBody]_vars

\* The same playlist with no source client ever connecting; the feeder and
\* the broadcast thread are daemon threads the scheduler keeps running
NextPlaylistAlone ==
    \/ FeederIdle
    \/ FeederMetaFile
    \/ FeederOpen
    \/ FeederReadFile
    \/ FeederWrite
    \/ Drain

SpecPlaylistAloneFair ==
    /\ InitPlaylist
    /\ [][NextPlaylistAlone]_vars
    /\ WF_vars(FeederIdle)
    /\ WF_vars(FeederMetaFile)
    /\ WF_vars(FeederOpen)
    /\ WF_vars(FeederReadFile)
    /\ SF_vars(FeederWrite)
    /\ WF_vars(Drain)

-----------------------------------------------------------------------------
(* Ring harness: any thread calling write and read on one buffer *)

NoCall == [op |-> "none", data |-> <<>>, n |-> 0, ret |-> FALSE]

InitRing ==
    /\ audio_buffer = CircularAudioBuffer
    /\ wrote = <<>>
    /\ got = <<>>
    /\ call = NoCall
    /\ InitBroadcaster
    /\ InitServer

RingWrite(data) ==
    LET r == write(audio_buffer, data)
    IN  /\ Len(wrote) + Len(data) <= MaxWritten
        /\ audio_buffer' = r.buf
        /\ wrote' = IF r.ret THEN wrote \o data ELSE wrote
        /\ call' = [op |-> "write", data |-> data, n |-> Len(data), ret |-> r.ret]
        /\ UNCHANGED <<got, bcastVars, srcVars>>

RingRead(n) ==
    LET r == read(audio_buffer, n)
    IN  /\ audio_buffer' = r.buf
        /\ got' = got \o r.data
        /\ call' = [op |-> "read", data |-> r.data, n |-> n, ret |-> TRUE]
        /\ UNCHANGED <<wrote, bcastVars, srcVars>>

WriteCall == \E data \in SeqsUpTo(Byte, MaxData) : RingWrite(data)

ReadCall == \E n \in 0 .. MaxData : RingRead(n)

NextRing == WriteCall \/ ReadCall

SpecRing == InitRing /\ [][NextRing]_vars

\* the same harness with clear() among the calls
ClearCall ==
    /\ audio_buffer' = clear(audio_buffer)
    /\ call' = [op |-> "clear", data |-> <<>>, n |-> 0, ret |-> TRUE]
    /\ UNCHANGED <<wrote, got, bcastVars, srcVars>>

NextRingClear == WriteCall \/ ReadCall \/ ClearCall

SpecRingClear == InitRing /\ [][NextRingClear]_vars

-----------------------------------------------------------------------------
(* The bytes a buffer still holds, oldest first (used by the claims only) *)

Pending(b) ==
    [i \in 1 .. b.available_bytes |-> b.buffer[(b.read_pos + i - 1) % size]]

\* C1: ring conservation and wrap correctness. After any sequence of write
\* and read calls, everything read so far is a prefix of the data of the
\* accepted writes, in order, and what is still buffered is exactly the rest.
C1_RingConservation ==
    /\ IsPrefix(got, wrote)
    /\ wrote = got \o Pending(audio_buffer)

\* C1 witness: the positions have wrapped past the end of the buffer, the
\* buffer is exactly full, and bytes written after the wrap have been read.
C1_Witness ==
    /\ Len(wrote) > Capacity
    /\ Len(got) >= 2
    /\ audio_buffer.available_bytes = Capacity
    /\ audio_buffer.write_pos # 0

\* C2: write returns False exactly when len(data) > space; a rejected write
\* changes nothing of the buffer; a write of exactly space bytes is accepted
\* in full (the buffer is then full and ends with that data).
C2_AllOrNothing ==
    [][ call'.op = "write" =>
          /\ call'.ret = ~(Len(call'.data) > size - audio_buffer.available_bytes)
          /\ (~call'.ret => audio_buffer' = audio_buffer)
          /\ (Len(call'.data) = size - audio_buffer.available_bytes =>
                /\ call'.ret
                /\ audio_buffer'.available_bytes = size
                /\ Pending(audio_buffer') = Pending(audio_buffer) \o call'.data)
      ]_vars

\* C2 witness: a write rejected on a buffer that holds unread bytes and has
\* wrapped, after a write that filled the buffer exactly.
C2_Witness ==
    /\ call.op = "write"
    /\ ~call.ret
    /\ Len(call.data) <= Capacity
    /\ audio_buffer.available_bytes = Capacity
    /\ audio_buffer.read_pos # 0

-----------------------------------------------------------------------------
(* Claims about the fan-out *)

RECURSIVE IsSubseq(_, _)
IsSubseq(s, t) ==
    IF s = <<>> THEN TRUE
    ELSE IF t = <<>> THEN FALSE
    ELSE IF Head(s) = Head(t) THEN IsSubseq(Tail(s), Tail(t))
    ELSE IsSubseq(s, Tail(t))

NoRepeat(s) == \A i, j \in 1 .. Len(s) : i # j => s[i] # s[j]

\* C5: fan-out order. For every listener connection the chunks its handler
\* has yielded are a subsequence of the chunks the broadcast thread read from
\* the buffer, in the same relative order, and none is yielded twice.
C5_FanoutOrder ==
    \A h \in Handlers : IsSubseq(emitted[h], fanned) /\ NoRepeat(emitted[h])

\* C5 witness: a listener has been handed at least two chunks and has a gap
\* (what it received is not simply the first chunks read).
C5_Witness ==
    \E h \in Handlers :
        /\ Len(emitted[h]) >= 2
        /\ emitted[h] # SubSeq(fanned, 1, Len(emitted[h]))

\* C6: drop-oldest. When the fan-out pushes a chunk onto the full queue of a
\* registered, active listener, the oldest queued chunk is dropped and the
\* new chunk is enqueued at the tail.
C6_DropOldest ==
    [][ \A h \in Handlers :
          ( /\ wk.pc = "fanout" /\ wk'.pc = "loop"
            /\ Registered(h) /\ writer[h].active
            /\ Len(writer[h].queue) = maxsize )
          => writer'[h].queue = Append(Tail(writer[h].queue), wk.chunk)
      ]_vars

\* C7: a listener whose queue is full never blocks the broadcast thread. The
\* fan-out step is always possible once a chunk is held; when it happens every
\* registered active listener with queue space has the chunk at the tail of
\* its queue, a full queue is left as it was, and the thread is back at the
\* head of its loop, from where it reads the next chunk.
C7_NonBlockingFanout ==
    [][ /\ (wk.pc = "fanout" => ENABLED WorkerFanout)
        /\ (wk.pc = "fanout" /\ wk'.pc # "fanout" =>
              /\ wk'.pc = "loop"
              /\ \A h \in Handlers :
                    Registered(h) /\ writer[h].active =>
                       IF Len(writer[h].queue) < maxsize
                       THEN writer'[h].queue = Append(writer[h].queue, wk.chunk)
                       ELSE writer'[h].queue = writer[h].queue)
      ]_vars

\* C7 witness: one listener sits on a full queue and missed the last chunk,
\* another registered listener received that chunk, and the thread is back
\* at the head of its loop.
C7_Witness ==
    /\ Len(fanned) >= maxsize + 1
    /\ wk.pc = "loop"
    /\ \E h1, h2 \in Handlers :
          /\ h1 # h2 /\ Registered(h1) /\ Registered(h2)
          /\ Len(writer[h1].queue) = maxsize
          /\ emitted[h1] = <<>>
          /\ writer[h1].queue = SubSeq(fanned, 1, maxsize)
          /\ \E i \in 1 .. Len(writer[h2].queue) :
                writer[h2].queue[i] = fanned[Len(fanned)]

-----------------------------------------------------------------------------
(* Claims about the source ingester and the playlist fallback *)

\* the producers that hold a chunk they are writing: the feeder (0) and the
\* source handlers, between obtaining a chunk and its write returning True
ActiveProducers ==
    (IF feeder.pc = "write" THEN {0} ELSE {})
    \cup {c \in Conns : cpc[c] = "write"}

\* C3: source exclusivity. At every state at most one producer is active
\* (holds a chunk whose write has not yet returned True).
C3_SourceExclusivity == Cardinality(ActiveProducers) <= 1

\* C4: preemption latency. Counting from the moment current_source is set
\* while it was None, and for as long as it stays set, the feeder has at most
\* one write accepted by the buffer, of at most one chunk.
C4_PreemptionLatency ==
    /\ late_writes <= 1
    /\ Len(feeder.chunk) <= Len(FileChunk)

\* C4 witness: a second source has preempted the first, the feeder got its
\* one late write in and is back at its idle poll.
C4_Witness ==
    /\ late_writes = 1
    /\ current_source = 2
    /\ was_source[1]
    /\ feeder.pc = "idle"

\* C8: a connection with method SOURCE or PUT is answered 200, and goes on to
\* become current_source, exactly when some Authorization: Basic line of it
\* decodes to user:pass with pass = source_password; otherwise it is answered
\* 401 and closed in a step that changes neither current_source nor
\* current_metadata nor the buffer; only connections answered 200 ever occupy
\* current_source or hold a chunk to write.
C8_SourceAuth ==
    [][ /\ \A c \in Conns :
              (cpc[c] = "idle" /\ cpc'[c] # "idle" /\ expect'[c] \in {"200", "401"}) =>
                 /\ response'[c] = expect'[c]
                 /\ expect'[c] = "200" => (cpc'[c] = "attach" /\ ~closed'[c])
                 /\ expect'[c] = "401" =>
                       /\ cpc'[c] = "done" /\ closed'[c]
                       /\ UNCHANGED <<current_source, current_metadata, audio_buffer>>
        /\ \A c \in Conns :
              (cpc[c] = "attach" /\ cpc'[c] # "attach") => current_source' = c
        /\ \A c \in Conns :
              response'[c] # "200" =>
                 current_source' # c /\ cpc'[c] \in {"idle", "done"} /\ cchunk'[c] = <<>>
      ]_vars

\* C8 witness: a connection was refused with 401 and closed while another,
\* authenticated connection is the source and has bytes in the buffer.
C8_Witness ==
    \E c, d \in Conns :
        /\ c # d
        /\ expect[c] = "401" /\ response[c] = "401" /\ closed[c]
        /\ current_source = d /\ response[d] = "200"
        /\ audio_buffer.available_bytes > 0

\* C9: a connection whose method is not exactly SOURCE or PUT is answered 405
\* and closed, and never becomes current_source, whatever credentials it
\* carries.
C9_MethodExact ==
    \A c \in Conns :
        (cpc[c] # "idle" /\ expect[c] = "405") =>
            response[c] = "405" /\ cpc[c] = "done" /\ closed[c] /\ ~was_source[c]

\* C10 as stated: the step in which an authenticated connection is attached
\* makes it current_source and, if another connection was the source, closes
\* that connection in the same step; every connection that was the source and
\* no longer is has been closed.
C10_PreemptionAllClosed ==
    [][ /\ \A c \in Conns :
              (cpc[c] = "attach" /\ cpc'[c] # "attach") =>
                 /\ current_source' = c
                 /\ current_source # None => closed'[current_source]
        /\ \A c \in Conns :
              (was_source'[c] /\ current_source' # c) => closed'[c]
      ]_vars

\* C10, amended: preemption. The step in which an authenticated connection is
\* attached makes it current_source and, if another connection was the
\* source, closes that connection in the same step. A connection that was
\* the source and no longer is, is closed - displaced connections at once; a
\* connection whose own handler cleared the slot is closed by the next
\* statement of that handler's finally block.
C10_Preemption ==
    [][ /\ \A c \in Conns :
              (cpc[c] = "attach" /\ cpc'[c] # "attach") =>
                 /\ current_source' = c
                 /\ current_source # None => closed'[current_source]
        /\ \A c \in Conns :
              (was_source'[c] /\ current_source' # c) =>
                 closed'[c] \/ cpc'[c] = "close"
      ]_vars

\* C10 witness: the second connection holds the slot, the first one was
\* displaced and closed while its handler was still streaming.
C10_Witness ==
    /\ current_source = 2
    /\ was_source[1] /\ closed[1]
    /\ cpc[1] \in {"recv", "write"}

\* C11: a source handler's exit clears current_source only if its own
\* connection is the occupant. The finally step of the occupant leaves the
\* slot empty; the finally step of a displaced handler, and the exit of a
\* handler whose handshake was refused or never completed, leave the slot as
\* it is; and the slot goes from a connection to empty in no other step.
C11_ExitClearsOwnSlot ==
    [][ /\ \A c \in Conns :
              (cpc[c] = "finally" /\ cpc'[c] = "close") =>
                 current_source' = (IF current_source = c THEN None ELSE current_source)
        /\ \A c \in Conns :
              (cpc[c] = "idle" /\ cpc'[c] = "done") => current_source' = current_source
        /\ (current_source # None /\ current_source' = None) =>
              (cpc[current_source] = "finally" /\ cpc'[current_source] = "close")
      ]_vars

\* C11 witness: the first connection was displaced by the second and its
\* handler has run its finally block and closed, the second still holds the
\* slot.
C11_Witness ==
    /\ current_source = 2
    /\ was_source[1] /\ cpc[1] = "done"
    /\ cpc[2] \in {"recv", "write"}

-----------------------------------------------------------------------------
(* Claims about listener registration *)

\* the handlers whose generator has called add_listener and has not returned
Streaming == {h \in Handlers : hpc[h] \in {"loop", "yield", "finally", "remove"}}

\* C12: a listener is in the broadcaster's table exactly from its handler's
\* add_listener until that handler exits: while the handler runs its id is
\* registered with its writer, before it starts and after it has returned
\* (by any exit path) the id is absent, and an id leaves the table only in
\* the remove_listener step of its own handler's finally block.
C12_ListenerPresence ==
    /\ [](\A h \in Handlers :
            /\ h \in Streaming =>
                  (is_listener_active(hid[h]) /\ listeners[hid[h]].writer = h)
            /\ h \notin Streaming => (~Registered(h) /\ ~is_listener_active(hid[h])))
    /\ [][ \A lid \in DOMAIN listeners \ DOMAIN listeners' :
              \E h \in Handlers :
                  hid[h] = lid /\ hpc[h] = "remove" /\ hpc'[h] = "done" ]_vars

\* C12 witness: one listener was served, disconnected and is gone from the
\* table while a later one is still registered and being served.
C12_Witness ==
    \E h, g \in Handlers :
        /\ hpc[h] = "done" /\ emitted[h] # <<>>
        /\ hpc[g] = "yield" /\ Registered(g)
        /\ DOMAIN listeners = {hid[g]}

-----------------------------------------------------------------------------
(* Claims about the listener's response body *)

RECURSIVE Flatten(_)
Flatten(chunks) ==
    IF chunks = <<>> THEN <<>> ELSE Head(chunks) \o Flatten(Tail(chunks))

\* the k-th metadata block of a stream whose metadata does not change: the
\* first carries the length byte 1 and one 16-byte unit holding
\* StreamTitle='<title> - <artist>'; (written -1), the later ones are the
\* single length byte 0
MetadataBlock(k) == IF k = 1 THEN <<1, -1>> ELSE <<0>>

\* audio interleaved with a metadata block after every M audio bytes
RECURSIVE IcyFrame(_, _, _)
IcyFrame(audio, M, k) ==
    IF Len(audio) < M THEN audio
    ELSE SubSeq(audio, 1, M) \o MetadataBlock(k)
            \o IcyFrame(SubSeq(audio, M + 1, Len(audio)), M, k + 1)

\* the chunks of s at the positions in sel, in order
RECURSIVE Pick(_, _, _)
Pick(s, sel, i) ==
    IF i > Len(s) THEN <<>>
    ELSE (IF i \in sel THEN <<s[i]>> ELSE <<>>) \o Pick(s, sel, i + 1)

\* C13: ICY framing. The body a listener has been sent is made of audio the
\* broadcast thread read from the buffer: as it is when the response does not
\* advertise icy-metaint, and with one metadata block after every
\* icy-metaint audio bytes when it does.
C13_IcyFraming ==
    \A h \in Handlers :
        \E sel \in SUBSET (1 .. Len(fanned)) :
            LET audio == Flatten(Pick(fanned, sel, 1))
                M == headers[h].icy_metaint
            IN  Flatten(emitted[h]) = IF M # None THEN IcyFrame(audio, M, 1) ELSE audio

-----------------------------------------------------------------------------
(* Claims about the state of the ring buffer *)

\* C14: under any interleaving of write, read and clear calls the buffer
\* keeps available + space = size, 0 <= available <= size, and write_pos and
\* read_pos in 0 .. size - 1.
C14_RingBounds ==
    /\ available(audio_buffer) + space(audio_buffer) = size
    /\ available(audio_buffer) \in 0 .. size
    /\ space(audio_buffer) \in 0 .. size
    /\ audio_buffer.write_pos \in 0 .. size - 1
    /\ audio_buffer.read_pos \in 0 .. size - 1

\* C14 witness: after a write and a read, a clear() discarded unread bytes
\* and a later write filled the buffer exactly.
C14_Witness ==
    /\ call.op = "write" /\ call.ret
    /\ audio_buffer.available_bytes = size
    /\ Len(got) > 0
    /\ Len(wrote) - Len(got) > size

\* C15 as stated: whenever the buffer is nonempty,
\* available = (write_pos - read_pos) mod size.
C15_AvailableIsDistance ==
    audio_buffer.available_bytes > 0 =>
        audio_buffer.available_bytes =
            (audio_buffer.write_pos - audio_buffer.read_pos) % size

\* C15, amended: available is congruent to write_pos - read_pos modulo size
\* in every state; it equals (write_pos - read_pos) mod size whenever the
\* buffer is not exactly full, and when it is full write_pos = read_pos.
C15_AvailableIsDistanceModSize ==
    /\ audio_buffer.available_bytes % size =
          (audio_buffer.write_pos - audio_buffer.read_pos) % size
    /\ audio_buffer.available_bytes < size =>
          audio_buffer.available_bytes =
              (audio_buffer.write_pos - audio_buffer.read_pos) % size
    /\ audio_buffer.available_bytes = size =>
          audio_buffer.write_pos = audio_buffer.read_pos

\* C15 witness: a nonempty, not full buffer whose write position has wrapped
\* behind its read position.
C15_Witness ==
    /\ audio_buffer.available_bytes > 0
    /\ audio_buffer.available_bytes < size
    /\ audio_buffer.write_pos < audio_buffer.read_pos

\* C16: read(n) always returns (it is never disabled), with exactly
\* min(n, available) bytes - the oldest buffered bytes in order, nothing when
\* the buffer is empty; available decreases by the returned length, read_pos
\* advances by it modulo size, write_pos and the stored bytes stay.
C16_ReadContract ==
    [][ /\ \A n \in 0 .. MaxData : ENABLED RingRead(n)
        /\ call'.op = "read" =>
              LET k == Min(call'.n, audio_buffer.available_bytes)
              IN  /\ Len(call'.data) = k
                  /\ call'.data = SubSeq(Pending(audio_buffer), 1, k)
                  /\ audio_buffer'.available_bytes = audio_buffer.available_bytes - k
                  /\ audio_buffer'.read_pos = (audio_buffer.read_pos + k) % size
                  /\ audio_buffer'.write_pos = audio_buffer.write_pos
                  /\ audio_buffer'.buffer = audio_buffer.buffer
      ]_vars

\* C16 witness: a read that asked for more than was available, got all of
\* it, and wrapped read_pos past the end of the buffer.
C16_Witness ==
    /\ call.op = "read"
    /\ call.n > Len(call.data)
    /\ Len(call.data) >= 2
    /\ audio_buffer.read_pos < Len(call.data)
    /\ audio_buffer.read_pos > 0

-----------------------------------------------------------------------------
(* Claims about delivery *)

\* C17: with the broadcaster running and a listener registered, whatever has
\* been written to the buffer is eventually read by the broadcast thread and
\* handed to the registered writers: for every k, once k bytes have been
\* written, eventually k bytes have been fanned out - also when the total
\* written is less than chunk_size.
C17_EventualDelivery ==
    \A k \in 1 .. MaxProduced * chunk_size :
        (running /\ listeners # <<>> /\ Len(wrote) >= k)
            ~> (Len(Flatten(fanned)) >= k /\ wk.pc # "fanout")

-----------------------------------------------------------------------------
(* Claims about the playlist fallback over time *)

\* the feeder has just had a chunk of a playlist file accepted by the buffer
FeederWrote == feeder.pc = "check" /\ feeder.pos >= 1

-----------------------------------------------------------------------------
(* Claims about listener ids *)

\* the handlers that have called add_listener
Added == {h \in Handlers : hpc[h] # "idle"}

\* C19: listener ids. Every add_listener returns an id greater than every id
\* returned before - whether or not those were removed since - so no id is
\* handed out twice; and for as long as an id is registered it names the
\* writer it was given to.
C19_ListenerIds ==
    /\ [](/\ \A h, g \in Added : h # g => hid[h] # hid[g]
          /\ \A h \in Added : hid[h] >= 0 /\ hid[h] < next_listener_id
          /\ \A lid \in DOMAIN listeners :
                \E h \in Added : hid[h] = lid /\ listeners[lid].writer = h)
    /\ [][ \A h \in Handlers :
              (hpc[h] = "idle" /\ hpc'[h] # "idle") =>
                 /\ \A g \in Added : hid'[h] > hid[g]
                 /\ hid'[h] \notin DOMAIN listeners
                 /\ next_listener_id' > hid'[h]
                 /\ \A g \in Added : hid'[g] = hid[g] ]_vars

\* C19 witness: the first listener was removed before the second was added,
\* and the second did not get the freed id.
C19_Witness ==
    \E h, g \in Handlers :
        /\ hpc[h] = "done" /\ hid[h] = 0
        /\ hpc[g] = "loop" /\ hid[g] = 1
        /\ DOMAIN listeners = {1}
        /\ emitted[g] = <<>>

-----------------------------------------------------------------------------
(* Claims about remove_listener *)

\* the table without one id, every other entry as it was
Without(listener_id) ==
    [lid \in DOMAIN listeners \ {listener_id} |-> listeners[lid]]

\* C20: remove_listener(id) can be called for any id, registered or not (it
\* raises nothing); after it the id is not active; every other entry of the
\* table, its statistics included, is as before, and when the id was not
\* registered the whole table is unchanged.
C20_RemoveIdempotent ==
    [][ /\ \A listener_id \in ListenerIds : ENABLED RemoveCall(listener_id)
        /\ (call' # call /\ call'.op = "remove_listener") =>
              /\ call'.n \notin DOMAIN listeners'
              /\ listeners' = Without(call'.n)
              /\ (~is_listener_active(call'.n) => listeners' = listeners)
      ]_vars

\* C20 witness: an id that had been added and removed was removed once more,
\* while another listener, with bytes counted for it, stays registered.
C20_Witness ==
    \E h, g \in Handlers :
        /\ call.op = "remove_listener" /\ call.n = hid[h] /\ ~call.ret
        /\ hpc[h] = "added" /\ ~Registered(h)
        /\ h # g /\ Registered(g) /\ listeners[hid[g]].bytes_sent > 0

-----------------------------------------------------------------------------
(* Claims about the status read-model *)

\* C21: get_listener_count() returns a value, and that value is the number
\* of listeners registered at the time of the call: the listeners added
\* less those a remove_listener took out of the table.
C21_ListenerCount ==
    [][ (call' # call /\ call'.op = "get_listener_count") =>
           /\ call'.ret
           /\ call'.n = Cardinality(DOMAIN listeners)
           /\ call'.n = Cardinality({h \in Handlers : hpc[h] = "added" /\ Registered(h)})
      ]_vars

\* C22: get_stats() returns total_listeners equal to the size of the
\* listener table, exactly one entry {id, bytes_sent, connected_seconds} per
\* registered listener, and a field total_bytes_sent.
C22_Stats ==
    [][ (call' # call /\ call'.op = "get_stats") =>
           LET stats == call'.data
           IN  /\ stats.total_listeners = Cardinality(DOMAIN listeners)
               /\ Len(stats.listeners) = Cardinality(DOMAIN listeners)
               /\ \A lid \in DOMAIN listeners :
                     \E i \in 1 .. Len(stats.listeners) :
                        /\ DOMAIN stats.listeners[i] = {"id", "bytes_sent", "connected_seconds"}
                        /\ stats.listeners[i].id = lid
                        /\ stats.listeners[i].bytes_sent = listeners[lid].bytes_sent
                        /\ stats.listeners[i].connected_seconds >= 0
               /\ "total_bytes_sent" \in DOMAIN stats
      ]_vars

-----------------------------------------------------------------------------
(* Claims about the broadcaster's lifecycle *)

\* everything of the broadcaster and the buffer but the history of calls
Broadcaster == <<running, wk, listeners, next_listener_id, writer, audio_buffer, fanned>>

\* C23: start() and stop() are idempotent. Either can be called whenever no
\* stop() is still joining; start() while running and stop() while stopped
\* change nothing (start() makes no second thread: the one running keeps its
\* place and its chunk); start() while stopped - also after a stop() - leaves
\* the flag set and a thread at the head of its loop; stop() while running
\* clears the flag and touches nothing else; and the flag is set exactly
\* while there is a thread that has not been told to stop.
C23_LifecycleIdempotent ==
    /\ [](running => wk.pc \in {"loop", "read", "fanout"})
    /\ [][ /\ Joined => (ENABLED StartCall /\ ENABLED StopCall)
           /\ (call' # call /\ call'.op = "start") =>
                 IF running THEN Broadcaster' = Broadcaster
                 ELSE /\ running' /\ wk' = NewThread
                      /\ <<listeners, next_listener_id, writer, audio_buffer, fanned>>'
                            = <<listeners, next_listener_id, writer, audio_buffer, fanned>>
           /\ (call' # call /\ call'.op = "stop") =>
                 IF ~running THEN Broadcaster' = Broadcaster
                 ELSE /\ ~running'
                      /\ <<wk, listeners, next_listener_id, writer, audio_buffer, fanned>>'
                            = <<wk, listeners, next_listener_id, writer, audio_buffer, fanned>>
         ]_vars

\* C23 witness: a start() that came after a stop() had ended a thread which
\* had fanned out a chunk; the thread it made has fanned out another, and a
\* second start() since then would be the one recorded.
C23_Witness ==
    /\ call.op = "start" /\ call.ret
    /\ call.n >= 1
    /\ Len(fanned) > call.n
    /\ running /\ wk.pc = "fanout"

-----------------------------------------------------------------------------
(* Claims about the fan-out's accounting and its failures *)

RECURSIVE TotalLen(_)
TotalLen(chunks) ==
    IF chunks = <<>> THEN 0 ELSE Len(Head(chunks)) + TotalLen(Tail(chunks))

\* the chunks that were put on the queue of a listener connection: those its
\* handler has taken off and those still queued
Enqueued(h) == emitted[h] \o writer[h].queue

\* C24: at every state the bytes_sent of a registered listener is the total
\* length of the chunks that were enqueued on its queue; a chunk dropped
\* because the queue was full, or ignored because the writer was closed, is
\* not counted.
C24_BytesSentEnqueued ==
    \A lid \in DOMAIN listeners :
        listeners[lid].bytes_sent = TotalLen(Enqueued(listeners[lid].writer))

\* C25: a listener whose write raises during the fan-out does not end the
\* broadcast thread nor the fan-out: the fan-out step can always be taken,
\* it leaves the thread at the head of its loop with the flag as it was and
\* the table holding the same ids; the raising listener's bytes_sent and
\* queue are as before, and every other registered listener is offered the
\* chunk and has it counted.
C25_FanoutSurvivesError ==
    /\ [](running => wk.pc \in {"loop", "read", "fanout"})
    /\ [][ /\ wk.pc = "fanout" => ENABLED WorkerFanout
           /\ (wk.pc = "fanout" /\ wk'.pc # "fanout") =>
                 /\ wk'.pc = "loop" /\ running' = running
                 /\ DOMAIN listeners' = DOMAIN listeners
                 /\ \A lid \in DOMAIN listeners :
                       LET h == listeners[lid].writer
                       IN  /\ listeners'[lid].writer = h
                           /\ IF writer[h].raises
                              THEN /\ listeners'[lid].bytes_sent = listeners[lid].bytes_sent
                                   /\ writer'[h] = writer[h]
                              ELSE /\ listeners'[lid].bytes_sent
                                         = listeners[lid].bytes_sent + Len(wk.chunk)
                                   /\ writer'[h].queue = put_nowait(writer[h].queue, wk.chunk).queue
         ]_vars

\* C25 witness: the first listener's writer raised on the last chunk and has
\* nothing counted for it, the listener registered after it got that chunk,
\* and the thread is back at the head of its loop.
C25_Witness ==
    /\ wk.pc = "loop" /\ running
    /\ Len(fanned) >= 1
    /\ \E h, g \in Handlers :
          /\ Registered(h) /\ Registered(g) /\ hid[h] < hid[g]
          /\ writer[h].raises /\ listeners[hid[h]].bytes_sent = 0
          /\ ~writer[g].raises
          /\ writer[g].queue # <<>>
          /\ writer[g].queue[Len(writer[g].queue)] = fanned[Len(fanned)]
          /\ listeners[hid[g]].bytes_sent = Len(fanned) * chunk_size

-----------------------------------------------------------------------------
(* Claims about the metadata sniffed from the live stream *)

\* sub occurs in data at index i (from 0)
Occurs(data, sub, i) ==
    /\ i >= 0
    /\ i + Len(sub) <= Len(data)
    /\ \A k \in 1 .. Len(sub) : data[i + k] = sub[k]

\* where the first StreamTitle=' of a chunk ends, and where the first ';
\* after it begins
TitleStarts(text) ==
    {i + Len(StreamTitleQuote) : i \in {i \in 0 .. Len(text) :
        /\ Occurs(text, StreamTitleQuote, i)
        /\ \A j \in 0 .. i - 1 : ~Occurs(text, StreamTitleQuote, j)}}

TitleEnds(text) ==
    {e \in 0 .. Len(text) :
        \E b \in TitleStarts(text) :
            /\ e >= b /\ Occurs(text, QuoteSemi, e)
            /\ \A j \in b .. e - 1 : ~Occurs(text, QuoteSemi, j)}

\* the chunk contains StreamTitle='X';
HasStreamTitle(text) == TitleEnds(text) # {}

\* X, as text
StreamTitleOf(text) ==
    LET b == CHOOSE b \in TitleStarts(text) : TRUE
        e == CHOOSE e \in TitleEnds(text) : TRUE
    IN  SelectSeq(SubSeq(text, b + 1, e), LAMBDA ch : ch # "?")

\* the places where X has ' - '
Dashes(X) == {i \in 0 .. Len(X) : Occurs(X, Dash, i)}

FirstDash(X) == CHOOSE i \in Dashes(X) : \A j \in Dashes(X) : i <= j

\* the metadata is the one sniffed from title X
SniffedFrom(metadata, X) ==
    /\ metadata.title[1] = "StreamTitle"
    /\ IF Dashes(X) # {}
       THEN /\ metadata.artist = SubSeq(X, 1, FirstDash(X))
            /\ metadata.title[2] = SubSeq(X, FirstDash(X) + Len(Dash) + 1, Len(X))
            /\ X = metadata.artist \o Dash \o metadata.title[2]
       ELSE /\ metadata.title[2] = X
            /\ metadata.artist = <<>>

\* C26: when a chunk received from the live source contains
\* StreamTitle='X'; the metadata becomes {artist: A, title: T} if X contains
\* ' - ' (X = A + ' - ' + T, split at the first ' - '), otherwise
\* {title: X, artist: ''}; a chunk without a complete StreamTitle='...';
\* leaves the metadata as it was; either way the chunk goes on to be written
\* to the buffer, and the write that ends the handler's wait stores it.
C26_StreamTitleSniff ==
    [][ /\ (call' # call /\ call'.op = "recv") =>
              LET text == call'.data
                  c == call'.n
              IN  /\ IF HasStreamTitle(text)
                     THEN SniffedFrom(current_metadata', StreamTitleOf(text))
                     ELSE current_metadata' = current_metadata
                  /\ cpc'[c] = "write" /\ cchunk'[c] = LiveChunk
        /\ \A c \in Conns :
              (cpc[c] = "write" /\ cpc'[c] # "write") =>
                 /\ write(audio_buffer, cchunk[c]).ret
                 /\ audio_buffer' = write(audio_buffer, cchunk[c]).buf
      ]_vars

-----------------------------------------------------------------------------
(* Claims about the playlist files *)

\* the file the feeder plays
TheFile == playlist_files[1]

\* the number whose base-128 digits are the low seven bits of the bytes at
\* offsets 6, 7, 8 and 9
DeclaredSize(file) ==
    LET digit(k) == file.head[k + 1] % 128
    IN  ((digit(6) * 128 + digit(7)) * 128 + digit(8)) * 128 + digit(9)

\* the file is at least ten bytes long and starts with 'ID3'
HasID3Header(file) ==
    file.length >= 10 /\ \A k \in 1 .. 3 : file.head[k] = ID3[k]

StartsWithID3(file) ==
    file.length >= 3 /\ \A k \in 1 .. 3 : file.head[k] = ID3[k]

\* C27: the first byte of a playlist file that the feeder writes to the
\* buffer is the byte at offset 10 + S when the file's first ten bytes are
\* an ID3v2 header declaring the synchsafe size S, and the byte at offset 0
\* when the file does not start with 'ID3'; the bytes written after it are
\* the following bytes of the file, in order.
C27_ID3Skip ==
    wrote # <<>> =>
        /\ HasID3Header(TheFile) => wrote[1] = 10 + DeclaredSize(TheFile)
        /\ ~StartsWithID3(TheFile) => wrote[1] = 0
        /\ \A i \in 1 .. Len(wrote) : wrote[i] = wrote[1] + i - 1

\* C27 witness: a file with a tag whose size bytes have their top bit set
\* and whose size takes more than one of them; the feeder has written the
\* bytes after the tag, up to the end of the file.
C27_Witness ==
    /\ HasID3Header(TheFile)
    /\ TheFile.head[8] > 128 /\ TheFile.head[10] > 128
    /\ Len(wrote) = MaxAudio
    /\ wrote[1] = 10 + DeclaredSize(TheFile)
    /\ wrote[Len(wrote)] = TheFile.length - 1
    /\ feeder.pc = "idle"

-----------------------------------------------------------------------------
(* Claims about reading the metadata *)

\* the titles the chunks of the stream carry
ChunkTitles == {StreamTitleOf(text) : text \in {t \in TitleChunks : HasStreamTitle(t)}}

\* the title and artist were stored together by one update: the initial
\* value, a source attach, a playlist track change, or the sniff of a chunk
\* that carries a title
StoredTogether(metadata) ==
    \/ metadata.title[1] = "station_name" /\ metadata = station_name
    \/ metadata.title[1] = "Live Stream" /\ metadata = LiveStream
    \/ /\ metadata.title[1] = "file"
       /\ \E i \in 1 .. Len(playlist_files) : metadata = PlaylistEntry(playlist_files[i])
    \/ /\ metadata.title[1] = "StreamTitle"
       /\ \E X \in ChunkTitles : SniffedFrom(metadata, X)

\* C28: every read of the metadata returns a title and an artist that one
\* single update stored together, under any interleaving of the source
\* handlers, the feeder and the reader.
C28_MetadataSnapshot ==
    /\ StoredTogether(current_metadata)
    /\ call.op = "status" => StoredTogether(call.data)

\* C28 witness: the reader got the artist and title sniffed from the stream
\* of a source that has since been displaced, after the playlist had played
\* and another title had been sniffed.
C28_Witness ==
    /\ call.op = "status"
    /\ call.data.title = <<"StreamTitle", <<"b">>>> /\ call.data.artist = <<"a">>
    /\ current_metadata.title = <<"StreamTitle", <<"c">>>>
    /\ \E c \in Conns : was_source[c] /\ closed[c] /\ current_source # c
    /\ feeder.pos > 0

-----------------------------------------------------------------------------
(* Claims about the broadcast loop *)

Stopped == ~running /\ call.op = "stop" /\ call.ret

\* C30: after stop() has cleared the running flag the broadcast thread fans
\* out at most one more chunk - the one it had already decided to read - and
\* then ends: it reaches the end of its loop, and from the head of the loop
\* on it takes nothing more from the buffer.
C30_StopTerminates ==
    /\ (~running) ~> (wk.pc \in {"none", "exited"})
    /\ [](Stopped => Len(fanned) <= call.n + 1)
    /\ [][ (~running /\ ~running' /\ wk.pc # "read") =>
              /\ fanned' = fanned
              /\ available(audio_buffer') >= available(audio_buffer)
              /\ wk.pc = "exited" => wk' = wk ]_vars

\* C30 witness: stop() came when the thread had decided to read; the thread
\* fanned out that one chunk and ended, with another whole chunk waiting in
\* the buffer.
C30_Witness ==
    /\ Stopped
    /\ Len(fanned) = call.n + 1
    /\ wk.pc = "exited"
    /\ available(audio_buffer) >= chunk_size

-----------------------------------------------------------------------------
(* Claims about producers and the broadcast thread together *)

\* a write of chunk would be refused now
Refused(chunk) == Len(chunk) > space(audio_buffer)

-----------------------------------------------------------------------------
(* Claims about the order of the playlist *)

\* reading the header of file i of the playlist raises
FileRaises(i) == header_raises(file_header(playlist_files[i]))

NoFileErrors == \A i \in 1 .. Len(playlist_files) : ~FileRaises(i)

\* C32: the playlist index changes only when the feeder leaves a file -
\* played to its end or abandoned because a source attached - and then it
\* advances by exactly one modulo the number of files. So, when no file
\* raises, each file the feeder opens is the one after the file it opened
\* before, in list order and round the end of the list, also across a
\* preemption.
C32_RoundRobin ==
    /\ [][ (feeder.pc = "check" /\ feeder'.pc = "idle") =>
              feeder'.current_file_index
                  = (feeder.current_file_index + 1) % Len(playlist_files) ]_vars
    /\ [][ feeder'.current_file_index # feeder.current_file_index =>
              feeder.pc = "check" /\ feeder'.pc = "idle" ]_vars
    /\ [][ (NoFileErrors /\ feeder.pc = "meta" /\ feeder'.pc = "open"
               /\ call.op = "open") =>
              call'.n = (call.n + 1) % Len(playlist_files) ]_vars

\* C32 witness: the first file, three bytes long, was abandoned after its
\* first chunk; the source has left, and the feeder has gone on with the
\* second file (the third byte of the first file was never written).
C32_Witness ==
    /\ NoFileErrors
    /\ playlist_files[1] = PlainFile
    /\ current_source = None
    /\ \E c \in Conns : was_source[c]
    /\ call.op = "open" /\ call.n = 1
    /\ feeder.current_file_index = 1
    /\ Len(wrote) > feeder_chunk_size
    /\ SubSeq(wrote, 1, feeder_chunk_size) = file_read(PlainFile, 0, feeder_chunk_size)
    /\ wrote[feeder_chunk_size + 1] # feeder_chunk_size

\* C33: a playlist file whose every attempt to read raises does not block
\* the playlist: with no source attached, the feeder eventually streams
\* every other file of the playlist.
C33_BadFileSkipped ==
    \A i \in 1 .. NumFiles :
        (~FileRaises(i)) =>
            <>(feeder.pc = "write" /\ feeder.current_file_index = i - 1)

-----------------------------------------------------------------------------
(* Claims about the metadata while a source is live *)

\* a source occupies the slot and has set its metadata
LiveSet == current_source # None /\ cpc[current_source] \in {"recv", "write"}

\* C34: while a live source occupies the slot and has set its metadata
\* ("Live Stream" or a sniffed title), no step replaces the metadata by a
\* playlist entry, whatever the interleaving of feeder and source handler.
C34_NoPlaylistMetadataWhileLive ==
    [][ (LiveSet /\ current_source' = current_source
           /\ current_metadata' # current_metadata) =>
          current_metadata'.artist # PlaylistEntry(1).artist ]_vars

-----------------------------------------------------------------------------
(* Claims about the body of the source's request *)

\* everything written to the buffer so far: what the broadcast thread has
\* read from it and what it still holds
WrittenSoFar == Flatten(fanned) \o Pending(audio_buffer)

\* the bytes of client c among them
WrittenOf(c) == SelectSeq(WrittenSoFar, LAMBDA b : b \div 100 = c)

\* the chunk the handler of c has received and not yet written
InHand(c) == IF cpc[c] = "write" THEN cchunk[c] ELSE <<>>

\* C35: for an accepted source, the bytes written to the buffer, the chunk
\* its handler is writing and the bytes no recv has returned yet make up,
\* in this order, exactly the body it sent after the blank line that ends
\* its headers: every body byte received has been written once, in order -
\* also those that arrived in the recv that completed the headers.
C35_BodyWritten ==
    \A c \in Conns :
        response[c] = "200" =>
            WrittenOf(c) \o InHand(c) \o unread[c] = Body(c)

-----------------------------------------------------------------------------
(* Claims about listeners joining the stream *)

\* the chunks listener connection h has been handed
Received(h) == emitted[h] \o writer[h].queue

\* the listener of the last add_listener call has none of the first n chunks
\* read from the buffer
HasNoneOfFirst(n) ==
    \A i \in 1 .. Len(Received(call.data[1])) :
        \A j \in 1 .. n : Received(call.data[1])[i] # fanned[j]

\* the broadcast thread reads a whole chunk whenever there is one, listeners
\* or not, and with no listener registered the chunk it has read reaches
\* no writer
ReadsWithoutListeners ==
    /\ []((running /\ wk.pc = "loop" /\ available(audio_buffer) >= chunk_size)
            => ENABLED WorkerLoop)
    /\ [][ (wk.pc = "fanout" /\ DOMAIN listeners = {} /\ wk'.pc # "fanout") =>
              writer' = writer /\ wk'.pc = "loop" /\ wk'.chunk = <<>> ]_vars

\* C36 as stated: the broadcast thread consumes chunks whether or not a
\* listener is registered, and a listener receives none of the chunks read
\* from the buffer before its add_listener call returned.
C36_NoEarlierChunk ==
    /\ ReadsWithoutListeners
    /\ [](call.op = "add_listener" => HasNoneOfFirst(call.n))

\* C36 amended: the broadcast thread consumes chunks whether or not a
\* listener is registered, and a listener receives none of the chunks whose
\* fan-out had begun before its add_listener call returned; the one chunk
\* the thread had read and not yet fanned out it does receive.
C36_NoEarlierFanout ==
    /\ ReadsWithoutListeners
    /\ [](call.op = "add_listener" =>
            HasNoneOfFirst(IF call.ret THEN call.n - 1 ELSE call.n))
    /\ []((call.op = "add_listener" /\ call.ret /\ wk.pc # "fanout") =>
            \E i \in 1 .. Len(Received(call.data[1])) :
                Received(call.data[1])[i] = fanned[call.n])

\* C36 witness: the first listener joined after a chunk had been read and
\* discarded, while the thread was holding the second chunk; it has received
\* the second chunk and not the first.
C36_Witness ==
    /\ call.op = "add_listener" /\ call.ret
    /\ call.data = <<1>>
    /\ call.n = 2
    /\ Received(1) = <<fanned[2]>>
    /\ wk.pc = "loop"

-----------------------------------------------------------------------------
(* Claims about removal and the fan-out *)

\* C37: once remove_listener(id) has returned for a registered id, no step of the broadcaster
\* calls write on the writer that was registered under id (its queue and
\* its flags stay as they are); and a fan-out step hands its chunk to the
\* writers of exactly the listeners in the table when the step takes the
\* lock, counting the chunk for each of them and for nobody else.
C37_RemovedNotWritten ==
    /\ [][ (call.op = "remove_listener" /\ call.ret /\ call' = call) =>
              \A h \in Handlers : hid[h] = call.n => writer'[h] = writer[h] ]_vars
    /\ [][ (wk.pc = "fanout" /\ wk'.pc # "fanout") =>
              /\ DOMAIN listeners' = DOMAIN listeners
              /\ \A h \in Handlers :
                    writer'[h] = IF Registered(h)
                                 THEN StreamWriter_write(writer[h], wk.chunk)
                                 ELSE writer[h]
              /\ \A lid \in DOMAIN listeners :
                    listeners'[lid].bytes_sent
                        = listeners[lid].bytes_sent + Len(wk.chunk) ]_vars

\* C37 witness: two listeners were handed the first chunk; the first was
\* then removed, and the fan-out of the second chunk has handed it to the
\* second listener only.
C37_Witness ==
    /\ call.op = "remove_listener" /\ call.ret /\ call.n = hid[1]
    /\ Len(fanned) = 2 /\ wk.pc = "loop"
    /\ writer[1].queue = <<fanned[1]>>
    /\ writer[2].queue = <<fanned[1], fanned[2]>>
    /\ Registered(2)

-----------------------------------------------------------------------------
(* Claims about the number of broadcast threads *)

\* thread w is in its loop
Alive(w) == w.pc \in {"loop", "read", "fanout"}

\* C38: whatever start() and stop() calls are made, a stop() whose join
\* timed out and a start() after it included, at most one broadcast thread
\* reads from the buffer: the thread a timed-out join left behind never
\* goes on to another read while the thread of a later start() is in its
\* loop.
C38_SingleReader == ~(wk0.pc = "read" /\ Alive(wk))

-----------------------------------------------------------------------------
(* Claims about shutdown *)

\* playlist_feeder has returned (its loop is `while True` without a break:
\* no step leads here)
FeederReturned == feeder.pc = "returned"

\* the handler of connection c has returned, or c was never accepted
HandlerReturned(c) == cpc[c] \in {"idle", "done"}

\* C39: once shutdown is requested, the feeder thread and every source
\* handler eventually return, and every source connection that was
\* accepted is closed.
C39_ShutdownTerminates ==
    (call.op = "shutdown") ~>
        (/\ FeederReturned
         /\ \A c \in Conns : HandlerReturned(c)
         /\ \A c \in Conns : response[c] # "none" => closed[c])

====
